---- MODULE Spec2Model ----
(***************************************************************************)
(* A model of open-proxy: the bounded-concurrency proxy checker            *)
(* (src/proxy/checker.rs), its streaming consumer (src/tui/proxy_checker.rs)*)
(* the multi-format parser (src/proxy/parser.rs, src/proxy/models.rs) and  *)
(* the crawler (src/proxy/crawler.rs).                                     *)
(* The specifications share the variables: Spec (check_proxies and        *)
(* check_and_separate), SpecFair (the same under fair scheduling),         *)
(* SpecPair (two batches at once), SpecProbe (one check_proxy call),       *)
(* SpecStream (the streaming check under the dashboard), SpecParse         *)
(* (parse_line), SpecFile (save_to_file, parse_file), SpecText             *)
(* (parse_string), SpecExtract (parse_proxies_from_text), SpecDedup (the   *)
(* sort and dedup step), SpecCrawl (the multi-source crawls), SpecGeo      *)
(* (GeoLocator::lookup) and SpecSetters (the configuration setters).       *)
(*                                                                         *)
(* Strings the program inspects character by character (proxy lines, hosts,*)
(* credentials) are sequences of one-character strings; strings it only    *)
(* passes along (error texts, URLs of the probe target) are TLA+ strings.  *)
(* Option<T> is a sequence of length 0 (None) or 1 (Some).                 *)
(***************************************************************************)
EXTENDS Integers, Sequences, FiniteSets, TLC

VARIABLES
    config,        \* ProxyChecker.config : CheckerConfig
    geo_locator,   \* ProxyChecker.geo_locator : Option<GeoLocator>
    streaming,     \* TRUE when the calls are check_proxies_stream calls
    proxies,       \* per call: the batch handed to check_proxies
    pc,            \* per call: "idle", "running", "returned"
    semaphore,     \* per call: permits available in the call's Semaphore
    buffer_max,    \* per call: capacity of the call's buffer_unordered
    task,          \* per call, per proxy: the unit of work built by .map(..)
    results,       \* per call: the Vec collected so far, in completion order
    tx_open,       \* the stream's sender side is still alive
    channel,       \* results sent and not yet received
    app,           \* ProxyCheckerApp fields
    line,          \* parse_line input
    default_type,  \* parse_line / parse_string / parse_file default type
    parsed,        \* Option<result of parse_line>, None before the call
    records,       \* save_to_file input
    full_format,   \* save_to_file flag
    file,          \* Option<content of the file at path>
    loaded,        \* Option<result of parse_file>
    src_lines,     \* the lines a text handed to parse_string is made of
    text,          \* Option<the text handed to parse_string>
    collected,     \* Option<result of parse_string>
    separated,     \* per call: Option<the pair check_and_separate returns>
    page,          \* parse_proxies_from_text input (a fetched body)
    extraction,    \* Option<what parse_proxies_from_text did and returned>
    dedup_input,   \* records handed to the sort-and-dedup step
    dedup_once,    \* Option<the step's output>
    dedup_twice,   \* Option<the step's output on its own output>
    sources,       \* the sources of a multi-source crawl
    by_name,       \* TRUE: crawl_sources_with_results, FALSE: crawl_urls_..
    crawl_pc,      \* "idle", "running", "returned"
    fetch_log,     \* the fetches started: the source's index and its state
    crawl_results, \* the Vec<CrawlResult> built so far
    lookup_host,   \* GeoLocator::lookup input
    db_answer,     \* what the database holds for the address looked up
    located,       \* Option<result of GeoLocator::lookup>
    checker_cfg,   \* a CheckerConfig under construction
    crawler_cfg,   \* a CrawlerConfig under construction
    setter_log,    \* the setters applied so far, with their arguments
    cfg_before,    \* both configurations before the last setter
    probe          \* one check_proxy call: its inputs, position and result

checkerVars == <<config, geo_locator, streaming, proxies, pc, semaphore,
                 buffer_max, task, results>>
streamVars == <<tx_open, channel, app>>
parseVars == <<line, default_type, parsed>>
fileVars == <<records, full_format, file, loaded>>
textVars == <<src_lines, text, collected>>
scanVars == <<page, extraction>>
dedupVars == <<dedup_input, dedup_once, dedup_twice>>
crawlVars == <<sources, by_name, crawl_pc, fetch_log, crawl_results>>
crawlerVars == <<scanVars, dedupVars, crawlVars>>
geoVars == <<lookup_host, db_answer, located>>
setterVars == <<checker_cfg, crawler_cfg, setter_log, cfg_before>>
unitVars == <<geoVars, setterVars, probe>>
vars == <<checkerVars, streamVars, parseVars, fileVars, textVars, separated,
          crawlerVars, unitVars>>

----------------------------------------------------------------------------
(* Bounds of the model *)

\* largest batch handed to check_proxies
MaxBatch == 3
\* largest concurrency limit tried (0 is tried too)
MaxConcurrency == 2
\* largest batch of a streaming check
MaxStreamBatch == 2
\* most delimiter-separated fields in a line handed to parse_line
MaxFields == 4
\* most records handed to save_to_file
MaxRecords == 2
\* most lines in a text handed to parse_string
MaxLines == 4
\* most lines in a body handed to parse_proxies_from_text
MaxPageLines == 3
\* most records handed to the sort-and-dedup step
MaxDedupLen == 4
\* most sources in a multi-source crawl
MaxSources == 3
\* most dot-separated labels in a host handed to GeoLocator::lookup
MaxHostLabels == 4
\* most setters applied to the two configurations
MaxSetterCalls == 3
\* largest batch of each of two calls running at once
MaxPairBatch == 1

----------------------------------------------------------------------------
(* Option and Result *)

None == <<>>
Some(x) == <<x>>
IsSome(o) == Len(o) = 1
IsNone(o) == Len(o) = 0
Unwrap(o) == o[1]

Ok(x) == <<"Ok", x>>
Err(e) == <<"Err", e>>
IsOk(r) == r[1] = "Ok"

Range(s) == {s[i] : i \in 1..Len(s)}

----------------------------------------------------------------------------
(* src/proxy/models.rs *)

ProxyType == {"Http", "Https", "Socks4", "Socks5"}

ProxyAuth_new(username, password) ==
    [username |-> username, password |-> password]

Proxy_new(host, port, proxy_type) ==
    [host |-> host, port |-> port, proxy_type |-> proxy_type, auth |-> None]

Proxy_with_auth(host, port, proxy_type, username, password) ==
    [host |-> host, port |-> port, proxy_type |-> proxy_type,
     auth |-> Some(ProxyAuth_new(username, password))]

\* ProxyCheckStatus: <<"Working">>, <<"Failed", text>>, <<"Timeout">>
Working == <<"Working">>
Failed(error) == <<"Failed", error>>
Timeout == <<"Timeout">>

ProxyCheckResult_working(proxy, response_time_ms) ==
    [proxy |-> proxy, status |-> Working,
     response_time_ms |-> Some(response_time_ms), geo_location |-> None]

ProxyCheckResult_failed(proxy, error) ==
    [proxy |-> proxy, status |-> Failed(error),
     response_time_ms |-> None, geo_location |-> None]

ProxyCheckResult_timeout(proxy) ==
    [proxy |-> proxy, status |-> Timeout,
     response_time_ms |-> None, geo_location |-> None]

\* called at checker.rs:115; its body is not part of the sources
with_geo_location(result, location) ==
    [result EXCEPT !.geo_location = Some(location)]

is_working(r) == r.status = Working

----------------------------------------------------------------------------
(* Characters and the string operations of the Rust standard library that  *)
(* the parser uses                                                         *)

Digit == {"0", "1", "2", "3", "4", "5", "6", "7", "8", "9"}

DigitVal(c) ==
    CASE c = "0" -> 0 [] c = "1" -> 1 [] c = "2" -> 2 [] c = "3" -> 3
      [] c = "4" -> 4 [] c = "5" -> 5 [] c = "6" -> 6 [] c = "7" -> 7
      [] c = "8" -> 8 [] c = "9" -> 9

DigitChar(d) ==
    CASE d = 0 -> "0" [] d = 1 -> "1" [] d = 2 -> "2" [] d = 3 -> "3"
      [] d = 4 -> "4" [] d = 5 -> "5" [] d = 6 -> "6" [] d = 7 -> "7"
      [] d = 8 -> "8" [] d = 9 -> "9"

\* char::is_whitespace, on the characters of the model
Whitespace == {" ", "\r", "\n"}

\* the largest value of the u16 that holds Proxy.port
U16_MAX == 65535

Tail2(s, i) == SubSeq(s, i, Len(s))

\* position of the first c in s, 0 when there is none
IndexOf(s, c) ==
    IF \E i \in 1..Len(s) : s[i] = c
    THEN CHOOSE i \in 1..Len(s) : s[i] = c /\ \A j \in 1..(i - 1) : s[j] /= c
    ELSE 0

starts_with(s, prefix) ==
    /\ Len(s) >= Len(prefix)
    /\ SubSeq(s, 1, Len(prefix)) = prefix

\* str::trim
RECURSIVE trim_start(_)
trim_start(s) ==
    IF s /= <<>> /\ s[1] \in Whitespace THEN trim_start(Tail(s)) ELSE s

RECURSIVE trim_end(_)
trim_end(s) ==
    IF s /= <<>> /\ s[Len(s)] \in Whitespace
    THEN trim_end(SubSeq(s, 1, Len(s) - 1))
    ELSE s

trim(s) == trim_end(trim_start(s))

\* str::split(c).collect::<Vec<_>>(): always at least one part
RECURSIVE split(_, _)
split(s, c) ==
    LET i == IndexOf(s, c)
    IN  IF i = 0 THEN <<s>>
        ELSE <<SubSeq(s, 1, i - 1)>> \o split(Tail2(s, i + 1), c)

\* the regex class \d+ on the characters of the model
IsDigits(s) == s /= <<>> /\ \A i \in 1..Len(s) : s[i] \in Digit

\* checked decimal accumulation of u16::from_str: None on overflow
RECURSIVE checked_digits(_, _)
checked_digits(s, acc) ==
    IF s = <<>> THEN Some(acc)
    ELSE LET next == acc * 10 + DigitVal(s[1])
         IN  IF next > U16_MAX THEN None ELSE checked_digits(Tail(s), next)

\* <u16 as FromStr>::from_str(s).ok(): an optional '+' sign, then one or
\* more ASCII digits, the value at most u16::MAX
parse_u16(s) ==
    LET body == IF s /= <<>> /\ s[1] = "+" THEN Tail(s) ELSE s
    IN  IF IsDigits(body) THEN checked_digits(body, 0) ELSE None

\* format!("{}", n) for an unsigned integer
RECURSIVE to_string(_)
to_string(n) ==
    IF n < 10 THEN <<DigitChar(n)>>
    ELSE to_string(n \div 10) \o <<DigitChar(n % 10)>>

\* <[String]>::join(sep)
RECURSIVE join(_, _)
join(ss, sep) ==
    IF ss = <<>> THEN <<>>
    ELSE IF Len(ss) = 1 THEN ss[1]
    ELSE ss[1] \o sep \o join(Tail(ss), sep)

strip_cr(s) ==
    IF s /= <<>> /\ s[Len(s)] = "\r" THEN SubSeq(s, 1, Len(s) - 1) ELSE s

\* str::lines(): split at "\n", a final line ending adds no empty line, a
\* "\r" before the "\n" belongs to the line ending
lines(content) ==
    IF content = <<>> THEN <<>>
    ELSE LET parts == split(content, "\n")
             kept == IF parts[Len(parts)] = <<>>
                     THEN SubSeq(parts, 1, Len(parts) - 1)
                     ELSE parts
         IN  [i \in 1..Len(kept) |-> strip_cr(kept[i])]

----------------------------------------------------------------------------
(* src/proxy/models.rs: Display for ProxyType, Proxy::url and the two      *)
(* list-file renderings                                                    *)

ProxyTypeName(t) ==
    CASE t = "Http" -> <<"h", "t", "t", "p">>
      [] t = "Https" -> <<"h", "t", "t", "p", "s">>
      [] t = "Socks4" -> <<"s", "o", "c", "k", "s", "4">>
      [] t = "Socks5" -> <<"s", "o", "c", "k", "s", "5">>

url(p) ==
    LET auth_part == IF IsSome(p.auth)
                     THEN Unwrap(p.auth).username \o <<":">>
                          \o Unwrap(p.auth).password \o <<"@">>
                     ELSE <<>>
    IN  ProxyTypeName(p.proxy_type) \o <<":", "/", "/">> \o auth_part
        \o p.host \o <<":">> \o to_string(p.port)

to_simple_string(p) == p.host \o <<":">> \o to_string(p.port)

to_full_string(p) ==
    IF IsSome(p.auth)
    THEN p.host \o <<":">> \o to_string(p.port) \o <<":">>
         \o Unwrap(p.auth).username \o <<":">> \o Unwrap(p.auth).password
    ELSE to_simple_string(p)

----------------------------------------------------------------------------
(* src/proxy/parser.rs *)

\* The tail  ([^:]+):(\d+)$  of both regexes, with  /?  before the $ when
\* slash is TRUE.  [^:]+ followed by ':' ends right before the first colon;
\* what follows must be digits, then the optional slash, then the end.
MatchHostPort(s, slash) ==
    LET i == IndexOf(s, ":")
        rest == Tail2(s, i + 1)
        digits == IF slash /\ rest /= <<>> /\ rest[Len(rest)] = "/"
                  THEN SubSeq(rest, 1, Len(rest) - 1)
                  ELSE rest
    IN  IF i > 1 /\ IsDigits(digits)
        THEN Some([host |-> SubSeq(s, 1, i - 1), port |-> digits])
        ELSE None

\* ([^:]+):([^@]+)@  followed by MatchHostPort.  [^:]+ ends right before the
\* first colon, [^@]+ right before the first '@' after it; both are
\* non-empty.  The password may hold colons, the user name and host '@'.
MatchAuthHostPort(s, slash) ==
    LET i == IndexOf(s, ":")
        after == Tail2(s, i + 1)
        j == IndexOf(after, "@")
        hp == MatchHostPort(Tail2(after, j + 1), slash)
    IN  IF i > 1 /\ j > 1 /\ IsSome(hp)
        THEN Some([username |-> SubSeq(s, 1, i - 1),
                   password |-> SubSeq(after, 1, j - 1),
                   host |-> Unwrap(hp).host, port |-> Unwrap(hp).port])
        ELSE None

\* the alternatives of  ^(https?|socks[45])://
UrlSchemes == <<"Http", "Https", "Socks4", "Socks5">>

MatchScheme(s) ==
    LET hits == {t \in Range(UrlSchemes) :
                    starts_with(s, ProxyTypeName(t) \o <<":", "/", "/">>)}
    IN  IF hits = {} THEN None ELSE Some(CHOOSE t \in hits : TRUE)

\* ^(https?|socks[45])://(?:([^:]+):([^@]+)@)?([^:]+):(\d+)/?$
parse_url_format(s) ==
    LET scheme == MatchScheme(s)
        rest == Tail2(s, Len(ProxyTypeName(Unwrap(scheme))) + 4)
        withAuth == MatchAuthHostPort(rest, TRUE)
        noAuth == MatchHostPort(rest, TRUE)
    IN  IF IsNone(scheme) THEN None
        ELSE IF IsSome(withAuth)
        THEN LET c == Unwrap(withAuth)
                 port == parse_u16(c.port)
             IN  IF IsNone(port) THEN None
                 ELSE Some(Proxy_with_auth(c.host, Unwrap(port),
                                           Unwrap(scheme), c.username, c.password))
        ELSE IF IsSome(noAuth)
        THEN LET c == Unwrap(noAuth)
                 port == parse_u16(c.port)
             IN  IF IsNone(port) THEN None
                 ELSE Some(Proxy_new(c.host, Unwrap(port), Unwrap(scheme)))
        ELSE None

\* ^([^:]+):([^@]+)@([^:]+):(\d+)$
parse_auth_at_format(s, dt) ==
    LET m == MatchAuthHostPort(s, FALSE)
    IN  IF IsNone(m) THEN None
        ELSE LET c == Unwrap(m)
                 port == parse_u16(c.port)
             IN  IF IsNone(port) THEN None
                 ELSE Some(Proxy_with_auth(c.host, Unwrap(port), dt,
                                           c.username, c.password))

parse_colon_format(s, dt) ==
    LET parts == split(s, ":")
    IN  IF Len(parts) = 2
        THEN LET port == parse_u16(parts[2])
             IN  IF IsNone(port) THEN None
                 ELSE Some(Proxy_new(parts[1], Unwrap(port), dt))
        ELSE IF Len(parts) = 4
        THEN LET port == parse_u16(parts[2])
             IN  IF IsNone(port) THEN None
                 ELSE Some(Proxy_with_auth(parts[1], Unwrap(port), dt,
                                           parts[3], parts[4]))
        ELSE None

parse_line(raw, dt) ==
    LET s == trim(raw)
        byUrl == parse_url_format(s)
        byAuthAt == parse_auth_at_format(s, dt)
    IN  IF s = <<>> \/ s[1] = "#" THEN None
        ELSE IF IsSome(byUrl) THEN byUrl
        ELSE IF IsSome(byAuthAt) THEN byAuthAt
        ELSE parse_colon_format(s, dt)

filter_map_parse_first_line_only(ls, dt) ==
    IF ls = <<>> THEN <<>> ELSE parse_line(ls[1], dt)

\* filter_map over lines(), collected in order
RECURSIVE filter_map_parse(_, _)
filter_map_parse(ls, dt) ==
    IF ls = <<>> THEN <<>>
    ELSE parse_line(ls[1], dt) \o filter_map_parse(Tail(ls), dt)

parse_string(content, dt) == filter_map_parse(lines(content), dt)

\* what save_to_file hands to fs::write
save_content(ps, full) ==
    join([i \in 1..Len(ps) |->
             IF full THEN to_full_string(ps[i]) ELSE to_simple_string(ps[i])],
         <<"\n">>)

----------------------------------------------------------------------------
(* src/proxy/geo.rs *)

GeoLocation_default ==
    [country_code |-> None, country_name |-> None, city_name |-> None,
     continent_code |-> None, latitude |-> None, longitude |-> None,
     timezone |-> None]

\* a City record of the database with every field present
SampleCity ==
    [country_code |-> Some("US"), country_name |-> Some("United States"),
     city_name |-> Some("Mountain View"), continent_code |-> Some("NA"),
     latitude |-> Some(37), longitude |-> Some(-122),
     timezone |-> Some("America/Los_Angeles")]

\* the files Reader::open_readfile can open
ReadableDatabases == {"GeoLite2-City.mmdb"}

GeoLocator_from_path(path) ==
    IF path \in ReadableDatabases
    THEN Ok([reader |-> path])
    ELSE Err("open_readfile failed")

\* <Ipv4Addr as FromStr>: four decimal octets of one to three digits, each
\* at most 255, none with a leading zero
IsOctet(s) ==
    /\ IsDigits(s)
    /\ Len(s) <= 3
    /\ (Len(s) > 1 => s[1] /= "0")
    /\ Unwrap(checked_digits(s, 0)) <= 255

IsIpLiteral(s) ==
    LET parts == split(s, ".")
    IN  Len(parts) = 4 /\ \A i \in 1..4 : IsOctet(parts[i])

\* what the database answers for an address: the reader fails, it holds no
\* entry, or it holds a City record
DbAnswers == {"error", "absent", "found"}

\* the geoip2::City records of the database: one with every field, one with
\* the country only, one with no field at all
FoundAnswers == {"found", "found_country", "found_bare"}

CityOf(answer) ==
    CASE answer = "found" ->
           [iso_code |-> SampleCity.country_code,
            country_english |-> SampleCity.country_name,
            city_english |-> SampleCity.city_name,
            code |-> SampleCity.continent_code,
            latitude |-> SampleCity.latitude,
            longitude |-> SampleCity.longitude,
            time_zone |-> SampleCity.timezone]
      [] answer = "found_country" ->
           [iso_code |-> Some("DE"), country_english |-> Some("Germany"),
            city_english |-> None, code |-> Some("EU"),
            latitude |-> None, longitude |-> None, time_zone |-> None]
      [] answer = "found_bare" ->
           [iso_code |-> None, country_english |-> None,
            city_english |-> None, code |-> None,
            latitude |-> None, longitude |-> None, time_zone |-> None]

\* lookup_ip, from the decoded City on: each field is copied, an absent one
\* stays None
GeoLocation_of_city(city) ==
    [country_code |-> city.iso_code, country_name |-> city.country_english,
     city_name |-> city.city_english, continent_code |-> city.code,
     latitude |-> city.latitude, longitude |-> city.longitude,
     timezone |-> city.time_zone]

lookup_ip(geo, answer) ==
    CASE answer = "error" -> Err("lookup failed")
      [] answer = "absent" -> Ok(GeoLocation_default)
      [] answer \in FoundAnswers -> Ok(GeoLocation_of_city(CityOf(answer)))

lookup_resolves_names(geo, ip_str, answer) == lookup_ip(geo, answer)

lookup(geo, ip_str, answer) ==
    IF IsIpLiteral(ip_str) THEN lookup_ip(geo, answer)
    ELSE Err("invalid IP address syntax")

----------------------------------------------------------------------------
(* src/proxy/checker.rs: configuration *)

DEFAULT_TIMEOUT_SECS == 10
DEFAULT_CONCURRENCY == 10
DEFAULT_TEST_URL == "http://httpbin.org/ip"

CheckerConfig_default ==
    [timeout |-> DEFAULT_TIMEOUT_SECS, concurrency |-> DEFAULT_CONCURRENCY,
     test_url |-> DEFAULT_TEST_URL, mmdb_path |-> None]

with_timeout_on_defaults(cfg, timeout) ==
    [CheckerConfig_default EXCEPT !.timeout = timeout]

with_timeout(cfg, timeout) == [cfg EXCEPT !.timeout = timeout]
with_concurrency(cfg, concurrency) == [cfg EXCEPT !.concurrency = concurrency]
with_test_url(cfg, test_url) == [cfg EXCEPT !.test_url = test_url]
with_mmdb_path(cfg, path) == [cfg EXCEPT !.mmdb_path = Some(path)]

\* ProxyChecker::with_config: the locator is from_path(path).ok()
with_config(cfg) ==
    LET opened == GeoLocator_from_path(Unwrap(cfg.mmdb_path))
    IN  [config |-> cfg,
         geo_locator |-> IF IsSome(cfg.mmdb_path) /\ IsOk(opened)
                         THEN Some(opened[2])
                         ELSE None]

----------------------------------------------------------------------------
(* src/proxy/checker.rs: one probe *)

\* create_client: the proxy rule by scheme, and the client's own timeout.
\* builds is the answer of reqwest to the proxy URL and the builder.
create_client(cfg, proxy, builds) ==
    IF builds
    THEN Ok([proxy_url |-> url(proxy),
             intercepts |-> IF proxy.proxy_type \in {"Http", "Https"}
                            THEN "http" ELSE "all",
             timeout |-> cfg.timeout])
    ELSE Err("builder error")

\* StatusCode::is_success
is_success(status) == 200 <= status /\ status <= 299

\* format!("HTTP status: {}", response.status())
HttpStatusText(status) ==
    CASE status = 200 -> "HTTP status: 200 OK"
      [] status = 204 -> "HTTP status: 204 No Content"
      [] status = 404 -> "HTTP status: 404 Not Found"
      [] status = 503 -> "HTTP status: 503 Service Unavailable"

\* Two timers run while the request is pending: the client's own
\* (Client::builder().timeout) and the one of tokio::time::timeout around
\* send().  The shorter one ends the wait; with equal durations either can.
TimeoutRace(client_timeout, outer_timeout) ==
    IF client_timeout < outer_timeout THEN {"client"}
    ELSE IF outer_timeout < client_timeout THEN {"outer"}
    ELSE {"client", "outer"}

check_proxy_match_geo_fails(geo, proxy, got) ==
    CASE got[1] = "response" ->
           IF is_success(got[2])
           THEN LET result == ProxyCheckResult_working(proxy, got[3])
                    location == lookup(Unwrap(geo), proxy.host, got[4])
                IN  IF IsNone(geo) THEN result
                    ELSE IF IsOk(location)
                    THEN with_geo_location(result, location[2])
                    ELSE ProxyCheckResult_failed(proxy, location[2])
           ELSE ProxyCheckResult_failed(proxy, HttpStatusText(got[2]))
      [] got[1] = "error" -> ProxyCheckResult_failed(proxy, got[2])
      [] got[1] = "elapsed" -> ProxyCheckResult_timeout(proxy)

\* The match of check_proxy on what the timed request gave:
\*   <<"response", status, elapsed_ms, answer>>   Ok(Ok(response))
\*   <<"error", text>>                           Ok(Err(e))
\*   <<"elapsed">>                               Err(_)
\* answer is the database's answer should a lookup be made.
check_proxy_match(geo, proxy, got) ==
    CASE got[1] = "response" ->
           IF is_success(got[2])
           THEN LET result == ProxyCheckResult_working(proxy, got[3])
                    location == lookup(Unwrap(geo), proxy.host, got[4])
                IN  IF IsSome(geo) /\ IsOk(location)
                    THEN with_geo_location(result, location[2])
                    ELSE result
           ELSE ProxyCheckResult_failed(proxy, HttpStatusText(got[2]))
      [] got[1] = "error" -> ProxyCheckResult_failed(proxy, got[2])
      [] got[1] = "elapsed" -> ProxyCheckResult_timeout(proxy)

----------------------------------------------------------------------------
(* The environment of a probe *)

StatusCodes == {200, 404}
ElapsedMs == {0, 35}

\* the proxies of the batches: a literal address without credentials and a
\* host name with credentials, in turn
PoolProxy(i) ==
    IF i % 2 = 1
    THEN Proxy_new(<<"1", ".", "1", ".", "1", ".", "1">>, 8080, "Http")
    ELSE Proxy_with_auth(<<"a", ".", "b">>, 1080, "Socks5", <<"u">>, <<"p">>)

Batch(m) == [i \in 1..m |-> PoolProxy(i)]

MmdbPaths == {"GeoLite2-City.mmdb", "missing.mmdb"}

----------------------------------------------------------------------------
(* src/proxy/checker.rs: check_proxies *)

\* st: "queued" in the stream, "waiting" for a permit, "request" pending,
\* "done", "sent" (streaming only).  out is the value of the unit.  The other
\* fields record what happened to it: the event that ended it, how often
\* check_proxy ran, the client it built, the geo lookup it made.
NewTask == [st |-> "queued", cause |-> "none", probes |-> 0,
            client |-> None, lookup |-> None, out |-> None]

check_proxies_limits_off_by_one(cfg) ==
    [permits |-> cfg.concurrency + 1, max |-> cfg.concurrency + 1]

\* lines 139 and 156: the permits of the semaphore and the capacity of
\* buffer_unordered
check_proxies_limits(cfg) ==
    [permits |-> cfg.concurrency, max |-> cfg.concurrency]

Calls == DOMAIN proxies
Tasks(b) == DOMAIN task[b]

InBuffer(b) == {i \in Tasks(b) : task[b][i].st \in {"waiting", "request"}}
InFlight(b) == {i \in Tasks(b) : task[b][i].st = "request"}
Queued(b) == {i \in Tasks(b) : task[b][i].st = "queued"}

collect_working_only(vec, r) == IF is_working(r) THEN Append(vec, r) ELSE vec

\* .collect::<Vec<_>>() takes what buffer_unordered yields
collect(vec, r) == Append(vec, r)

Finish_keeps_permit_on_timeout(b, i, r, cause, held, made) ==
    /\ task' = [task EXCEPT ![b][i] =
                   [@ EXCEPT !.st = "done", !.cause = cause, !.out = Some(r),
                             !.lookup = made,
                             !.probes = IF held THEN @ ELSE @ + 1]]
    /\ semaphore' = [semaphore EXCEPT ![b] =
                        IF held /\ r.status /= Timeout THEN @ + 1 ELSE @]
    /\ results' = IF streaming THEN results
                  ELSE [results EXCEPT ![b] = collect(@, r)]

\* the future of a unit ends: its value is yielded and its permit dropped
Finish(b, i, r, cause, held, made) ==
    /\ task' = [task EXCEPT ![b][i] =
                   [@ EXCEPT !.st = "done", !.cause = cause, !.out = Some(r),
                             !.lookup = made,
                             !.probes = IF held THEN @ ELSE @ + 1]]
    /\ semaphore' = [semaphore EXCEPT ![b] = IF held THEN @ + 1 ELSE @]
    /\ results' = IF streaming THEN results
                  ELSE [results EXCEPT ![b] = collect(@, r)]

CheckProxies(b) ==
    /\ b \in Calls
    /\ ~streaming
    /\ pc[b] = "idle"
    /\ pc' = [pc EXCEPT ![b] = "running"]
    /\ semaphore' = [semaphore EXCEPT ![b] = check_proxies_limits(config).permits]
    /\ buffer_max' = [buffer_max EXCEPT ![b] = check_proxies_limits(config).max]
    /\ UNCHANGED <<config, geo_locator, streaming, proxies, task, results>>
    /\ UNCHANGED <<streamVars, parseVars, fileVars, textVars>>
    /\ UNCHANGED <<unitVars, separated, crawlerVars>>

\* buffer_unordered takes the next unit from the stream while it holds
\* fewer than max, and polls it: the unit waits for a permit
PollNext(b) ==
    /\ b \in Calls
    /\ pc[b] = "running"
    /\ Queued(b) /= {}
    /\ Cardinality(InBuffer(b)) < buffer_max[b]
    /\ LET i == CHOOSE k \in Queued(b) : \A j \in Queued(b) : k <= j
       IN  task' = [task EXCEPT ![b][i].st = "waiting"]
    /\ UNCHANGED <<config, geo_locator, streaming, proxies, pc, semaphore,
                   buffer_max, results>>
    /\ UNCHANGED <<streamVars, parseVars, fileVars, textVars>>
    /\ UNCHANGED <<unitVars, separated, crawlerVars>>

\* the unit gets its permit and check_proxy runs to its first await: the
\* client is built and the request sent, or the build fails and the unit ends
Acquire(b, i) ==
    /\ b \in Calls /\ i \in Tasks(b)
    /\ pc[b] = "running"
    /\ task[b][i].st = "waiting"
    /\ semaphore[b] > 0
    /\ \E builds \in BOOLEAN :
          LET client == create_client(config, proxies[b][i], builds)
          IN  IF IsOk(client)
              THEN /\ task' = [task EXCEPT ![b][i] =
                                  [@ EXCEPT !.st = "request",
                                            !.probes = @ + 1,
                                            !.client = Some(client[2])]]
                   /\ semaphore' = [semaphore EXCEPT ![b] = @ - 1]
                   /\ UNCHANGED results
              ELSE Finish(b, i,
                          ProxyCheckResult_failed(proxies[b][i], client[2]),
                          "client_build_failed", FALSE, None)
    /\ UNCHANGED <<config, geo_locator, streaming, proxies, pc, buffer_max>>
    /\ UNCHANGED <<streamVars, parseVars, fileVars, textVars>>
    /\ UNCHANGED <<unitVars, separated, crawlerVars>>

\* the proxy relays a response before any timer ends
Respond(b, i) ==
    /\ b \in Calls /\ i \in Tasks(b)
    /\ pc[b] = "running"
    /\ task[b][i].st = "request"
    /\ \E status \in StatusCodes, ms \in ElapsedMs, answer \in DbAnswers :
          Finish(b, i,
                 check_proxy_match(geo_locator, proxies[b][i],
                                   <<"response", status, ms, answer>>),
                 IF is_success(status) THEN "status_2xx" ELSE "status_other",
                 TRUE,
                 IF is_success(status) /\ IsSome(geo_locator)
                 THEN Some(lookup(Unwrap(geo_locator), proxies[b][i].host,
                                  answer))
                 ELSE None)
    /\ UNCHANGED <<config, geo_locator, streaming, proxies, pc, buffer_max>>
    /\ UNCHANGED <<streamVars, parseVars, fileVars, textVars>>
    /\ UNCHANGED <<unitVars, separated, crawlerVars>>

\* the request fails at the transport layer before any timer ends
RequestError(b, i) ==
    /\ b \in Calls /\ i \in Tasks(b)
    /\ task[b][i].st = "request"
    /\ Finish(b, i,
              check_proxy_match(geo_locator, proxies[b][i],
                                <<"error", "error sending request">>),
              "transport_failed", TRUE, None)
    /\ UNCHANGED <<config, geo_locator, streaming, proxies, pc, buffer_max>>
    /\ UNCHANGED <<streamVars, parseVars, fileVars, textVars>>
    /\ UNCHANGED <<unitVars, separated, crawlerVars>>

\* no response within the timeout: the timer that ends the wait decides
\* what the match sees
Elapse(b, i) ==
    /\ b \in Calls /\ i \in Tasks(b)
    /\ task[b][i].st = "request"
    /\ \E winner \in TimeoutRace(Unwrap(task[b][i].client).timeout,
                                 config.timeout) :
          Finish(b, i,
                 check_proxy_match(geo_locator, proxies[b][i],
                                   IF winner = "client"
                                   THEN <<"error", "operation timed out">>
                                   ELSE <<"elapsed">>),
                 "timeout_elapsed", TRUE, None)
    /\ UNCHANGED <<config, geo_locator, streaming, proxies, pc, buffer_max>>
    /\ UNCHANGED <<streamVars, parseVars, fileVars, textVars>>
    /\ UNCHANGED <<unitVars, separated, crawlerVars>>

\* the stream is exhausted and the buffer empty: collect returns the Vec
Return(b) ==
    /\ b \in Calls
    /\ ~streaming
    /\ pc[b] = "running"
    /\ \A i \in Tasks(b) : task[b][i].st = "done"
    \* the end of the stream is seen only by a poll of it, which
    \* buffer_unordered makes only while it holds fewer than max units
    /\ Cardinality(InBuffer(b)) < buffer_max[b]
    /\ pc' = [pc EXCEPT ![b] = "returned"]
    /\ UNCHANGED <<config, geo_locator, streaming, proxies, semaphore,
                   buffer_max, task, results>>
    /\ UNCHANGED <<streamVars, parseVars, fileVars, textVars>>
    /\ UNCHANGED <<unitVars, separated, crawlerVars>>

RECURSIVE partition_timeouts_dropped(_)
partition_timeouts_dropped(v) ==
    IF v = <<>> THEN [good |-> <<>>, bad |-> <<>>]
    ELSE LET rest == partition_timeouts_dropped(Tail(v))
         IN  IF is_working(Head(v))
             THEN [rest EXCEPT !.good = <<Head(v)>> \o @]
             ELSE IF Head(v).status = Timeout THEN rest
             ELSE [rest EXCEPT !.bad = <<Head(v)>> \o @]

\* results.into_iter().partition(|r| r.is_working()): each item is pushed,
\* in turn, to the first Vec when the predicate holds and to the second
\* otherwise
RECURSIVE partition(_)
partition(v) ==
    IF v = <<>> THEN [good |-> <<>>, bad |-> <<>>]
    ELSE LET rest == partition(Tail(v))
         IN  IF is_working(Head(v))
             THEN [rest EXCEPT !.good = <<Head(v)>> \o @]
             ELSE [rest EXCEPT !.bad = <<Head(v)>> \o @]

\* check_and_separate: check_proxies has returned; its Vec is partitioned
CheckAndSeparate(b) ==
    /\ b \in Calls
    /\ ~streaming
    /\ pc[b] = "returned"
    /\ separated[b] = None
    /\ separated' = [separated EXCEPT ![b] = Some(partition(results[b]))]
    /\ UNCHANGED checkerVars
    /\ UNCHANGED <<streamVars, parseVars, fileVars, textVars, crawlerVars,
                   unitVars>>

----------------------------------------------------------------------------
(* Specification of the batch checker *)

NoApp == [pc |-> "none"]

InitChecker(calls, strm, maxb) ==
    /\ \E n \in 0..MaxConcurrency, mm \in {None} \cup {Some(p) : p \in MmdbPaths} :
          LET c0 == with_concurrency(CheckerConfig_default, n)
              c1 == IF IsSome(mm) THEN with_mmdb_path(c0, Unwrap(mm)) ELSE c0
          IN  /\ config = with_config(c1).config
              /\ geo_locator = with_config(c1).geo_locator
    /\ streaming = strm
    /\ proxies \in [calls -> {Batch(m) : m \in 0..maxb}]
    /\ pc = [b \in calls |-> "idle"]
    /\ semaphore = [b \in calls |-> 0]
    /\ buffer_max = [b \in calls |-> 0]
    /\ task = [b \in calls |-> [i \in 1..Len(proxies[b]) |-> NewTask]]
    /\ results = [b \in calls |-> <<>>]
    /\ separated = [b \in calls |-> None]

InitNoStream ==
    /\ tx_open = FALSE
    /\ channel = <<>>
    /\ app = NoApp

InitNoParse ==
    /\ line = <<>>
    /\ default_type = "Http"
    /\ parsed = None

InitNoFile ==
    /\ records = <<>>
    /\ full_format = FALSE
    /\ file = None
    /\ loaded = None

InitNoText ==
    /\ src_lines = <<>>
    /\ text = None
    /\ collected = None

InitNoScan ==
    /\ page = <<>>
    /\ extraction = None

InitNoDedup ==
    /\ dedup_input = <<>>
    /\ dedup_once = None
    /\ dedup_twice = None

InitNoCrawl ==
    /\ sources = <<>>
    /\ by_name = FALSE
    /\ crawl_pc = "idle"
    /\ fetch_log = <<>>
    /\ crawl_results = <<>>

InitNoGeo ==
    /\ lookup_host = <<>>
    /\ db_answer = "absent"
    /\ located = None

InitNoSetter ==
    /\ checker_cfg = None
    /\ crawler_cfg = None
    /\ setter_log = <<>>
    /\ cfg_before = None

InitNoProbe == probe = None

InitNoUnit ==
    /\ InitNoGeo
    /\ InitNoSetter
    /\ InitNoProbe

InitNoCrawler ==
    /\ InitNoScan
    /\ InitNoDedup
    /\ InitNoCrawl

Init ==
    /\ InitChecker({1}, FALSE, MaxBatch)
    /\ InitNoStream
    /\ InitNoParse
    /\ InitNoFile
    /\ InitNoText
    /\ InitNoUnit
    /\ InitNoCrawler

\* the calls a specification may start; Calls are those it starts
CallIds == {1, 2}
TaskIds == 1..(MaxBatch + 1)

Next ==
    \/ \E b \in CallIds : CheckProxies(b)
    \/ \E b \in CallIds : PollNext(b)
    \/ \E b \in CallIds, i \in TaskIds : Acquire(b, i)
    \/ \E b \in CallIds, i \in TaskIds : Respond(b, i)
    \/ \E b \in CallIds, i \in TaskIds : RequestError(b, i)
    \/ \E b \in CallIds, i \in TaskIds : Elapse(b, i)
    \/ \E b \in CallIds : Return(b)
    \/ \E b \in CallIds : CheckAndSeparate(b)

Spec == Init /\ [][Next]_vars

\* the same, with the runtime's progress: a task that can take a step takes
\* one, and a pending request ends by response, error or timer
SpecFair == Spec /\ WF_vars(Next)

\* two check_proxies calls running at once on one checker, or on a checker
\* and its clone: both have the one configuration
InitPair ==
    /\ InitChecker({1, 2}, FALSE, MaxPairBatch)
    /\ InitNoStream
    /\ InitNoParse
    /\ InitNoFile
    /\ InitNoText
    /\ InitNoUnit
    /\ InitNoCrawler

SpecPair == InitPair /\ [][Next]_vars

----------------------------------------------------------------------------
(* check_proxies_stream, as src/tui/proxy_checker.rs:142 uses it.  Its body *)
(* is not part of the sources: the same units of work as check_proxies,    *)
(* each sending its result on one channel when its probe has finished; the *)
(* sender side is dropped when every unit has sent.                        *)

CheckProxiesStream(b) ==
    /\ b \in Calls
    /\ streaming
    /\ pc[b] = "idle"
    /\ app.pc = "created"
    /\ pc' = [pc EXCEPT ![b] = "running"]
    /\ semaphore' = [semaphore EXCEPT ![b] = check_proxies_limits(config).permits]
    /\ buffer_max' = [buffer_max EXCEPT ![b] = check_proxies_limits(config).max]
    /\ tx_open' = TRUE
    /\ app' = [app EXCEPT !.pc = "looping"]
    /\ UNCHANGED <<config, geo_locator, streaming, proxies, task, results>>
    /\ UNCHANGED <<channel, parseVars, fileVars, textVars>>
    /\ UNCHANGED <<unitVars, separated, crawlerVars>>

\* a send to a receiver that was dropped is lost
Send(b, i) ==
    /\ b \in Calls /\ i \in Tasks(b)
    /\ streaming
    /\ task[b][i].st = "done"
    /\ task' = [task EXCEPT ![b][i].st = "sent"]
    /\ channel' = IF app.pc = "exited" THEN channel
                  ELSE Append(channel, Unwrap(task[b][i].out))
    /\ UNCHANGED <<config, geo_locator, streaming, proxies, pc, semaphore,
                   buffer_max, results>>
    /\ UNCHANGED <<tx_open, app, parseVars, fileVars, textVars>>
    /\ UNCHANGED <<unitVars, separated, crawlerVars>>

CloseChannel(b) ==
    /\ b \in Calls
    /\ streaming
    /\ pc[b] = "running"
    /\ \A i \in Tasks(b) : task[b][i].st = "sent"
    /\ pc' = [pc EXCEPT ![b] = "returned"]
    /\ tx_open' = FALSE
    /\ UNCHANGED <<config, geo_locator, streaming, proxies, semaphore,
                   buffer_max, task, results>>
    /\ UNCHANGED <<channel, app, parseVars, fileVars, textVars>>
    /\ UNCHANGED <<unitVars, separated, crawlerVars>>

----------------------------------------------------------------------------
(* src/tui/proxy_checker.rs *)

MAX_RECENT_PROXIES == 100

\* ProxyCheckerApp::new.  Left out: status_message, the output paths (no
\* output file is configured) and the list highlight (selected_list and the
\* two ListStates), which only the drawing code reads
ProxyCheckerApp_new(ps, cfg) ==
    [pc |-> "created", total |-> Len(ps), checked |-> 0, good_count |-> 0,
     bad_count |-> 0, recent_good |-> <<>>, recent_bad |-> <<>>,
     is_complete |-> FALSE, should_quit |-> FALSE]

Keys == {"q", "Esc", "Tab", "Down", "Up", "Enter"}

\* Tab, Down and Up move the highlight only
handle_input(a, key) ==
    IF key \in {"q", "Esc"} THEN [a EXCEPT !.should_quit = TRUE] ELSE a

\* VecDeque::push_back, then pop_front when longer than MAX_RECENT_PROXIES
push_recent(q, r) ==
    LET pushed == Append(q, r)
    IN  IF Len(pushed) > MAX_RECENT_PROXIES THEN Tail(pushed) ELSE pushed

try_recv_closed_first(chan, open) ==
    IF ~open THEN <<"Disconnected">>
    ELSE IF chan /= <<>> THEN <<"Ok", Head(chan)>>
    ELSE <<"Empty">>

\* mpsc try_recv: a buffered message first; Disconnected only when the
\* buffer is empty and every sender is gone
try_recv(chan, open) ==
    IF chan /= <<>> THEN <<"Ok", Head(chan)>>
    ELSE IF open THEN <<"Empty">>
    ELSE <<"Disconnected">>

on_try_recv_empty_completes(a, got) ==
    CASE got[1] = "Ok" ->
           IF is_working(got[2])
           THEN [a EXCEPT !.checked = @ + 1, !.good_count = @ + 1,
                          !.recent_good = push_recent(@, got[2])]
           ELSE [a EXCEPT !.checked = @ + 1, !.bad_count = @ + 1,
                          !.recent_bad = push_recent(@, got[2])]
      [] OTHER -> [a EXCEPT !.is_complete = TRUE]

on_try_recv_timeout_uncounted(a, got) ==
    CASE got[1] = "Ok" ->
           IF is_working(got[2])
           THEN [a EXCEPT !.checked = @ + 1, !.good_count = @ + 1,
                          !.recent_good = push_recent(@, got[2])]
           ELSE IF got[2].status = Timeout
           THEN [a EXCEPT !.checked = @ + 1]
           ELSE [a EXCEPT !.checked = @ + 1, !.bad_count = @ + 1,
                          !.recent_bad = push_recent(@, got[2])]
      [] got[1] = "Empty" -> a
      [] got[1] = "Disconnected" -> [a EXCEPT !.is_complete = TRUE]

\* the match on rx.try_recv() in run_app
on_try_recv(a, got) ==
    CASE got[1] = "Ok" ->
           IF is_working(got[2])
           THEN [a EXCEPT !.checked = @ + 1, !.good_count = @ + 1,
                          !.recent_good = push_recent(@, got[2])]
           ELSE [a EXCEPT !.checked = @ + 1, !.bad_count = @ + 1,
                          !.recent_bad = push_recent(@, got[2])]
      [] got[1] = "Empty" -> a
      [] got[1] = "Disconnected" -> [a EXCEPT !.is_complete = TRUE]

\* one pass of the loop of run_app: a key press, if one is pending, is
\* handled first and may end the loop; then one try_recv
RunAppIteration(key) ==
    /\ app.pc = "looping"
    /\ LET a1 == IF IsSome(key) THEN handle_input(app, Unwrap(key)) ELSE app
           got == try_recv(channel, tx_open)
       IN  IF a1.should_quit
           THEN /\ app' = [a1 EXCEPT !.pc = "exited"]
                /\ channel' = <<>>
           ELSE /\ app' = on_try_recv(a1, got)
                /\ channel' = IF got[1] = "Ok" THEN Tail(channel) ELSE channel
    /\ UNCHANGED <<checkerVars, tx_open, parseVars, fileVars, textVars>>
    /\ UNCHANGED <<unitVars, separated, crawlerVars>>

----------------------------------------------------------------------------
(* Specification of the streaming check under the progress dashboard *)

InitStream ==
    /\ InitChecker({1}, TRUE, MaxStreamBatch)
    /\ tx_open = FALSE
    /\ channel = <<>>
    /\ app = ProxyCheckerApp_new(proxies[1], config)
    /\ InitNoParse
    /\ InitNoFile
    /\ InitNoText
    /\ InitNoUnit
    /\ InitNoCrawler

NextStream ==
    \/ \E b \in CallIds : CheckProxiesStream(b)
    \/ \E b \in CallIds : PollNext(b)
    \/ \E b \in CallIds, i \in TaskIds : Acquire(b, i)
    \/ \E b \in CallIds, i \in TaskIds : Respond(b, i)
    \/ \E b \in CallIds, i \in TaskIds : RequestError(b, i)
    \/ \E b \in CallIds, i \in TaskIds : Elapse(b, i)
    \/ \E b \in CallIds, i \in TaskIds : Send(b, i)
    \/ \E b \in CallIds : CloseChannel(b)
    \/ \E key \in {None} \cup {Some(k) : k \in Keys} : RunAppIteration(key)

SpecStream == InitStream /\ [][NextStream]_vars

----------------------------------------------------------------------------
(* Specification of parse_line on bounded lines *)

InitNoChecker ==
    /\ config = CheckerConfig_default
    /\ geo_locator = None
    /\ streaming = FALSE
    /\ proxies = <<>>
    /\ pc = <<>>
    /\ semaphore = <<>>
    /\ buffer_max = <<>>
    /\ task = <<>>
    /\ results = <<>>
    /\ separated = <<>>

\* the default types a caller passes
DefaultTypes == {"Http", "Socks4"}

\* what stands between the delimiters of a line: nothing, a name, a port,
\* port 0, a signed number
FieldPool == {<<>>, <<"a">>, <<"8">>, <<"0">>, <<"+", "1">>}

\* the delimiter after field number at is '@', every other one ':'
AtPositions == {0, 1, 2}

RECURSIVE LineBody(_, _)
LineBody(fs, at) ==
    IF Len(fs) = 1 THEN fs[1]
    ELSE fs[1] \o (IF at = 1 THEN <<"@">> ELSE <<":">>)
         \o LineBody(Tail(fs), at - 1)

\* what stands before and after the fields
Wrappers ==
    { <<<<>>, <<>>>>,
      <<<<" ">>, <<" ", "\r">>>>,
      <<<<"#">>, <<>>>>,
      <<ProxyTypeName("Http") \o <<":", "/", "/">>, <<>>>>,
      <<ProxyTypeName("Socks5") \o <<":", "/", "/">>, <<"/">>>>,
      <<<<"f", "t", "p", ":", "/", "/">>, <<>>>> }

\* ports at and above u16::MAX
EdgePorts == {<<"6", "5", "5", "3", "5">>, <<"6", "5", "5", "3", "6">>}

ParseLines ==
    { w[1] \o LineBody(fs, at) \o w[2] :
        w \in Wrappers,
        fs \in UNION {[1..k -> FieldPool] : k \in 1..MaxFields},
        at \in AtPositions }
    \cup
    { w[1] \o pre \o <<"a", ":">> \o port \o w[2] :
        w \in Wrappers, pre \in {<<>>, <<"u", ":", "p", "@">>},
        port \in EdgePorts }

InitParse ==
    /\ InitNoChecker
    /\ InitNoStream
    /\ InitNoFile
    /\ InitNoText
    /\ InitNoUnit
    /\ InitNoCrawler
    /\ line \in ParseLines
    /\ default_type = "Http"
    /\ parsed = None

ParseLine(dt) ==
    /\ parsed = None
    /\ default_type' = dt
    /\ parsed' = Some(parse_line(line, dt))
    /\ UNCHANGED <<checkerVars, streamVars, line, fileVars, textVars>>
    /\ UNCHANGED <<unitVars, separated, crawlerVars>>

NextParse == \E dt \in DefaultTypes : ParseLine(dt)

SpecParse == InitParse /\ [][NextParse]_vars

----------------------------------------------------------------------------
(* Specification of save_to_file followed by parse_file *)

\* fs::write of the rendered records; the write succeeds
save_to_file(ps, full) == Some(save_content(ps, full))

\* fs::read_to_string(path)? then parse_string
parse_file(f, dt) ==
    IF IsNone(f) THEN Err("No such file or directory")
    ELSE Ok(parse_string(Unwrap(f), dt))

RecordPool ==
    { Proxy_new(<<"a">>, 8, "Http"),
      Proxy_new(<<"b">>, 65535, "Socks5"),
      Proxy_with_auth(<<"a">>, 8, "Http", <<"u">>, <<"p">>),
      Proxy_with_auth(<<"c">>, 80, "Socks4", <<"u">>, <<"p", ":", "q">>),
      Proxy_with_auth(<<"a">>, 8, "Http", <<"u", "@", "x">>, <<"1">>) }

InitFile ==
    /\ InitNoChecker
    /\ InitNoStream
    /\ InitNoParse
    /\ InitNoText
    /\ InitNoUnit
    /\ InitNoCrawler
    /\ records \in UNION {[1..k -> RecordPool] : k \in 0..MaxRecords}
    /\ full_format \in BOOLEAN
    /\ file = None
    /\ loaded = None

SaveToFile ==
    /\ file = None
    /\ file' = save_to_file(records, full_format)
    /\ UNCHANGED <<checkerVars, streamVars, parseVars, textVars>>
    /\ UNCHANGED <<records, full_format, loaded>>
    /\ UNCHANGED <<unitVars, separated, crawlerVars>>

ParseFile(dt) ==
    /\ loaded = None
    /\ default_type' = dt
    /\ loaded' = Some(parse_file(file, dt))
    /\ UNCHANGED <<checkerVars, streamVars, line, parsed, textVars>>
    /\ UNCHANGED <<records, full_format, file>>
    /\ UNCHANGED <<unitVars, separated, crawlerVars>>

NextFile ==
    \/ SaveToFile
    \/ \E dt \in DefaultTypes : ParseFile(dt)

SpecFile == InitFile /\ [][NextFile]_vars

----------------------------------------------------------------------------
(* Specification of parse_string on bounded texts *)

\* a record line, a comment after trimming, a blank line, a line of blanks,
\* a malformed line, a URL line
LinePool ==
    { <<"a", ":", "8">>,
      <<" ", "#", "a", ":", "8">>,
      <<>>,
      <<" ">>,
      <<"x">>,
      ProxyTypeName("Socks5") \o <<":", "/", "/", "b", ":", "9">> }

LineEndings == {<<"\n">>, <<"\r", "\n">>}

InitText ==
    /\ InitNoChecker
    /\ InitNoStream
    /\ InitNoParse
    /\ InitNoFile
    /\ InitNoCrawler
    /\ InitNoUnit
    /\ src_lines \in UNION {[1..k -> LinePool] : k \in 0..MaxLines}
    /\ text = None
    /\ collected = None

\* the lines joined by a line ending, the last one ended or not
WriteText(ending, last) ==
    /\ text = None
    /\ text' = Some(join(src_lines, ending) \o (IF last THEN ending ELSE <<>>))
    /\ UNCHANGED <<checkerVars, streamVars, parseVars, fileVars>>
    /\ UNCHANGED <<src_lines, collected>>
    /\ UNCHANGED <<unitVars, separated, crawlerVars>>

ParseString(dt) ==
    /\ text /= None
    /\ collected = None
    /\ default_type' = dt
    /\ collected' = Some(parse_string(Unwrap(text), dt))
    /\ UNCHANGED <<checkerVars, streamVars, line, parsed, fileVars>>
    /\ UNCHANGED <<src_lines, text>>
    /\ UNCHANGED <<unitVars, separated, crawlerVars>>

NextText ==
    \/ \E ending \in LineEndings, last \in BOOLEAN : WriteText(ending, last)
    \/ \E dt \in DefaultTypes : ParseString(dt)

SpecText == InitText /\ [][NextText]_vars

----------------------------------------------------------------------------
(* src/proxy/crawler.rs: parse_proxies_from_text *)

\* the bytes of the characters of the model: String::cmp compares bytes
Byte ==
    ("\n" :> 10) @@ ("\r" :> 13) @@ (" " :> 32) @@ ("#" :> 35) @@
    ("+" :> 43) @@ ("." :> 46) @@ ("/" :> 47) @@ ("0" :> 48) @@
    ("1" :> 49) @@ ("2" :> 50) @@ ("3" :> 51) @@ ("4" :> 52) @@
    ("5" :> 53) @@ ("6" :> 54) @@ ("7" :> 55) @@ ("8" :> 56) @@
    ("9" :> 57) @@ (":" :> 58) @@ ("<" :> 60) @@ (">" :> 62) @@
    ("@" :> 64) @@ ("_" :> 95) @@ ("a" :> 97) @@ ("b" :> 98) @@
    ("c" :> 99) @@ ("d" :> 100) @@ ("e" :> 101) @@ ("f" :> 102) @@
    ("g" :> 103) @@ ("h" :> 104) @@ ("i" :> 105) @@ ("j" :> 106) @@
    ("k" :> 107) @@ ("l" :> 108) @@ ("m" :> 109) @@ ("n" :> 110) @@
    ("o" :> 111) @@ ("p" :> 112) @@ ("q" :> 113) @@ ("r" :> 114) @@
    ("s" :> 115) @@ ("t" :> 116) @@ ("u" :> 117) @@ ("v" :> 118) @@
    ("w" :> 119) @@ ("x" :> 120) @@ ("y" :> 121) @@ ("z" :> 122)

Letter == {"a", "b", "c", "d", "e", "f", "g", "h", "i", "j", "k", "l", "m",
           "n", "o", "p", "q", "r", "s", "t", "u", "v", "w", "x", "y", "z"}

\* the regex class \w, which decides where \b holds
WordChar(c) == c \in Digit \cup Letter \cup {"_"}

\* <str as Ord>::cmp(a, b) = Less
RECURSIVE str_lt(_, _)
str_lt(a, b) ==
    IF b = <<>> THEN FALSE
    ELSE IF a = <<>> THEN TRUE
    ELSE IF a[1] = b[1] THEN str_lt(Tail(a), Tail(b))
    ELSE Byte[a[1]] < Byte[b[1]]

\* format!("{}:{}", a.host, a.port)
sort_key(p) == p.host \o <<":">> \o to_string(p.port)

insert_sorted_in_front(sorted, x) == <<x>> \o sorted

\* one step of the stable sort: x goes behind every element whose key is
\* not greater than its own
RECURSIVE insert_sorted(_, _)
insert_sorted(sorted, x) ==
    IF sorted = <<>> THEN <<x>>
    ELSE IF str_lt(sort_key(x), sort_key(sorted[1])) THEN <<x>> \o sorted
    ELSE <<sorted[1]>> \o insert_sorted(Tail(sorted), x)

sort_by_key_keeps_order(v) == v

\* Vec::sort_by with key_a.cmp(&key_b): stable
RECURSIVE sort_by_key(_)
sort_by_key(v) ==
    IF v = <<>> THEN <<>>
    ELSE insert_sorted(sort_by_key(SubSeq(v, 1, Len(v) - 1)), v[Len(v)])

RECURSIVE dedup_by_whole_record(_)
dedup_by_whole_record(v) ==
    IF Len(v) <= 1 THEN v
    ELSE LET kept == dedup_by_whole_record(SubSeq(v, 1, Len(v) - 1))
         IN  IF v[Len(v)] = kept[Len(kept)] THEN kept
             ELSE Append(kept, v[Len(v)])

RECURSIVE dedup_by_keeps_last(_)
dedup_by_keeps_last(v) ==
    IF Len(v) <= 1 THEN v
    ELSE LET kept == dedup_by_keeps_last(SubSeq(v, 1, Len(v) - 1))
             x == v[Len(v)]
             last == kept[Len(kept)]
         IN  IF x.host = last.host /\ x.port = last.port
             THEN [kept EXCEPT ![Len(kept)] = x]
             ELSE Append(kept, x)

\* Vec::dedup_by(|a, b| a.host == b.host && a.port == b.port): an element
\* equal to the one kept before it is removed
RECURSIVE dedup_by(_)
dedup_by(v) ==
    IF Len(v) <= 1 THEN v
    ELSE LET kept == dedup_by(SubSeq(v, 1, Len(v) - 1))
             x == v[Len(v)]
             last == kept[Len(kept)]
         IN  IF x.host = last.host /\ x.port = last.port THEN kept
             ELSE Append(kept, x)

\* the sort followed by the dedup
sort_and_dedup(v) == dedup_by(sort_by_key(v))

\* length of the run of digits that starts at position i
RECURSIVE DigitRun(_, _)
DigitRun(s, i) ==
    IF i <= Len(s) /\ s[i] \in Digit THEN 1 + DigitRun(s, i + 1) ELSE 0

\* a run of 1..max digits at i followed by the character next: the position
\* behind that character, 0 when there is no such run.  \d{1,max} before a
\* non-digit can only be the whole run.
RunThen(s, i, max, next) ==
    LET n == DigitRun(s, i)
    IN  IF n >= 1 /\ n <= max /\ i + n <= Len(s) /\ s[i + n] = next
        THEN i + n + 1
        ELSE 0

\* IP_PORT_REGEX  \b(\d{1,3}\.\d{1,3}\.\d{1,3}\.\d{1,3}):(\d{1,5})\b  matched
\* at position i: the two groups and the position of the last character
MatchIpPort(s, i) ==
    LET p2 == RunThen(s, i, 3, ".")
        p3 == IF p2 = 0 THEN 0 ELSE RunThen(s, p2, 3, ".")
        p4 == IF p3 = 0 THEN 0 ELSE RunThen(s, p3, 3, ".")
        p5 == IF p4 = 0 THEN 0 ELSE RunThen(s, p4, 3, ":")
        n == IF p5 = 0 THEN 0 ELSE DigitRun(s, p5)
    IN  IF /\ i <= Len(s)
           /\ (i = 1 \/ ~WordChar(s[i - 1]))
           /\ p5 /= 0
           /\ n >= 1 /\ n <= 5
           /\ (p5 + n > Len(s) \/ ~WordChar(s[p5 + n]))
        THEN Some([host |-> SubSeq(s, i, p5 - 2),
                   port |-> SubSeq(s, p5, p5 + n - 1),
                   last |-> p5 + n - 1])
        ELSE None

\* captures_iter: the leftmost match, then the search goes on behind it
RECURSIVE captures_iter(_, _)
captures_iter(s, i) ==
    IF i > Len(s) THEN <<>>
    ELSE LET m == MatchIpPort(s, i)
         IN  IF IsSome(m)
             THEN <<Unwrap(m)>> \o captures_iter(s, Unwrap(m).last + 1)
             ELSE captures_iter(s, i + 1)

\* part.parse::<u32>() of 1..3 digits
RECURSIVE octet_value(_)
octet_value(s) ==
    IF s = <<>> THEN 0
    ELSE octet_value(SubSeq(s, 1, Len(s) - 1)) * 10 + DigitVal(s[Len(s)])

\* the closure of filter_map in extract_proxies_with_regex
validate_capture(cap, proxy_type) ==
    LET port == parse_u16(cap.port)
        parts == split(cap.host, ".")
    IN  IF IsNone(port) THEN None
        ELSE IF Len(parts) /= 4 THEN None
        ELSE IF \E k \in 1..4 : octet_value(parts[k]) > 255 THEN None
        ELSE IF Unwrap(port) = 0 THEN None
        ELSE Some(Proxy_new(cap.host, Unwrap(port), proxy_type))

RECURSIVE filter_map_captures(_, _)
filter_map_captures(caps, proxy_type) ==
    IF caps = <<>> THEN <<>>
    ELSE validate_capture(caps[1], proxy_type)
         \o filter_map_captures(Tail(caps), proxy_type)

extract_proxies_with_regex(content, proxy_type) ==
    filter_map_captures(captures_iter(content, 1), proxy_type)

parse_proxies_from_text_always_scans(content, proxy_type) ==
    LET line_parsed == filter_map_parse(lines(content), proxy_type)
    IN  [proxy_type |-> proxy_type,
         line_parsed |-> line_parsed,
         regex_ran |-> TRUE,
         proxies |-> sort_and_dedup(
                        line_parsed
                        \o extract_proxies_with_regex(content, proxy_type))]

\* parse_proxies_from_text: proxies is what it returns; line_parsed and
\* regex_ran record which tier produced the records
parse_proxies_from_text(content, proxy_type) ==
    LET line_parsed == filter_map_parse(lines(content), proxy_type)
        found == IF line_parsed = <<>>
                 THEN extract_proxies_with_regex(content, proxy_type)
                 ELSE line_parsed
    IN  [proxy_type |-> proxy_type,
         line_parsed |-> line_parsed,
         regex_ran |-> (line_parsed = <<>>),
         proxies |-> sort_and_dedup(found)]

----------------------------------------------------------------------------
(* Specification of parse_proxies_from_text on bounded bodies *)

PageLines ==
    { <<"1", ".", "1", ".", "1", ".", "1", ":", "8", "0">>,
      <<"1", ".", "1", ".", "1", ".", "1", "0", ":", "8", "0">>,
      <<"1", ".", "1", ".", "1", ".", "1", ":", "9">>,
      <<"s", "o", "c", "k", "s", "5", ":", "/", "/", "1", ".", "1", ".", "1", ".", "1", ":", "8", "0">>,
      <<"u", ":", "p", "@", "1", ".", "1", ".", "1", ".", "1", ":", "8", "0">>,
      <<"<", "t", "d", ">", "1", ".", "1", ".", "1", ".", "1", ":", "8", "0", "<", "/", "t", "d", ">">>,
      <<"<", "b", ">", "2", ".", "2", ".", "2", ".", "2", ":", "8", "0", " ", "9", "9", "9", ".", "1", ".", "1", ".", "1", ":", "8", "0">>,
      <<"x", " ", "1", ".", "1", ".", "1", ".", "1", ":", "0", " ", "x">>,
      <<"9", "9", "9", ".", "1", ".", "1", ".", "1", ":", "8", "0">>,
      <<"1", ".", "1", ".", "1", ".", "1", ":", "0">> }

Pages ==
    { join(ls, <<"\n">>) :
        ls \in UNION {[1..k -> PageLines] : k \in 0..MaxPageLines} }

InitExtract ==
    /\ InitNoChecker
    /\ InitNoStream
    /\ InitNoParse
    /\ InitNoFile
    /\ InitNoText
    /\ InitNoUnit
    /\ InitNoDedup
    /\ InitNoCrawl
    /\ page \in Pages
    /\ extraction = None

ParseProxiesFromText(proxy_type) ==
    /\ extraction = None
    /\ extraction' = Some(parse_proxies_from_text(page, proxy_type))
    /\ UNCHANGED <<checkerVars, streamVars, parseVars, fileVars, textVars>>
    /\ UNCHANGED <<unitVars, separated, page, dedupVars, crawlVars>>

NextExtract == \E proxy_type \in DefaultTypes : ParseProxiesFromText(proxy_type)

SpecExtract == InitExtract /\ [][NextExtract]_vars

----------------------------------------------------------------------------
(* Specification of the sort-and-dedup step applied to its own output *)

\* records that share host and port, records whose keys share a prefix
DedupPool ==
    { Proxy_new(<<"a">>, 8, "Http"),
      Proxy_new(<<"a">>, 8, "Socks5"),
      Proxy_with_auth(<<"a">>, 8, "Http", <<"u">>, <<"p">>),
      Proxy_new(<<"a">>, 80, "Http"),
      Proxy_new(<<"a", "0">>, 8, "Http"),
      Proxy_new(<<"b">>, 9, "Https") }

InitDedup ==
    /\ InitNoChecker
    /\ InitNoStream
    /\ InitNoParse
    /\ InitNoFile
    /\ InitNoText
    /\ InitNoUnit
    /\ InitNoScan
    /\ InitNoCrawl
    /\ dedup_input \in UNION {[1..k -> DedupPool] : k \in 0..MaxDedupLen}
    /\ dedup_once = None
    /\ dedup_twice = None

DedupOnce ==
    /\ dedup_once = None
    /\ dedup_once' = Some(sort_and_dedup(dedup_input))
    /\ UNCHANGED <<checkerVars, streamVars, parseVars, fileVars, textVars>>
    /\ UNCHANGED <<unitVars, separated, scanVars, dedup_input, dedup_twice, crawlVars>>

DedupAgain ==
    /\ dedup_once /= None
    /\ dedup_twice = None
    /\ dedup_twice' = Some(sort_and_dedup(Unwrap(dedup_once)))
    /\ UNCHANGED <<checkerVars, streamVars, parseVars, fileVars, textVars>>
    /\ UNCHANGED <<unitVars, separated, scanVars, dedup_input, dedup_once, crawlVars>>

NextDedup ==
    \/ DedupOnce
    \/ DedupAgain

SpecDedup == InitDedup /\ [][NextDedup]_vars

----------------------------------------------------------------------------
(* src/proxy/crawler.rs: CrawlResult, ProxySource and the multi-source     *)
(* crawls                                                                  *)

CrawlResult_success(source, proxies_found) ==
    [source |-> source, proxies |-> proxies_found, error |-> None]

CrawlResult_failure(source, error) ==
    [source |-> source, proxies |-> <<>>, error |-> Some(error)]

CrawlResult_is_success_by_proxies(r) == r.proxies /= <<>>

CrawlResult_is_success(r) == IsNone(r.error)

ProxySource_new(name, source_url, proxy_type) ==
    [name |-> name, url |-> source_url, proxy_type |-> proxy_type]

SourcePool ==
    { ProxySource_new("free-proxy-list.net", "https://free-proxy-list.net/",
                      "Http"),
      ProxySource_new("socks-proxy.net", "https://www.socks-proxy.net/",
                      "Socks4") }

\* bodies a source answers with: a list, a page without proxies
CrawlBodies == { <<"1", ".", "1", ".", "1", ".", "1", ":", "8", "0">>, <<"<", "b", ">", "n", "o", "n", "e">> }

\* Display of the reqwest errors of send() and text()
SendErrorText == "error sending request"
TextErrorText == "error decoding response body"

\* what a CrawlResult is labelled with: source.name in
\* crawl_sources_with_results, the url in crawl_urls_with_results
Label(i) == IF by_name THEN sources[i].name ELSE sources[i].url

\* the fetch the loop is at
Current == fetch_log[Len(fetch_log)]

loop_may_advance_always(log) == TRUE

\* the loop body awaits crawl_url: the next iteration, and the return behind
\* the loop, come only when the fetch of this iteration has resolved
loop_may_advance(log) ==
    IF log = <<>> THEN TRUE ELSE log[Len(log)].st \in {"failed", "ok"}

push_result_drops_failures(results_so_far, r) ==
    IF IsSome(r.error) THEN results_so_far ELSE Append(results_so_far, r)

\* results.push(result)
push_result(results_so_far, r) == Append(results_so_far, r)

Resolve(outcome, r) ==
    /\ fetch_log' = [fetch_log EXCEPT ![Len(fetch_log)].st = outcome]
    /\ crawl_results' = push_result(crawl_results, r)

\* let mut results = Vec::new()
CrawlStart ==
    /\ crawl_pc = "idle"
    /\ crawl_pc' = "running"
    /\ UNCHANGED <<checkerVars, streamVars, parseVars, fileVars, textVars>>
    /\ UNCHANGED <<unitVars, separated, scanVars, dedupVars>>
    /\ UNCHANGED <<sources, by_name, fetch_log, crawl_results>>

\* the loop takes the next source and crawl_url sends its request
BeginFetch ==
    /\ crawl_pc = "running"
    /\ Len(fetch_log) < Len(sources)
    /\ loop_may_advance(fetch_log)
    /\ fetch_log' = Append(fetch_log,
                           [source |-> Len(fetch_log) + 1, st |-> "sending"])
    /\ UNCHANGED <<checkerVars, streamVars, parseVars, fileVars, textVars>>
    /\ UNCHANGED <<unitVars, separated, scanVars, dedupVars>>
    /\ UNCHANGED <<sources, by_name, crawl_pc, crawl_results>>

\* send() fails: crawl_url returns Err, the loop records a failure
SendFails ==
    /\ crawl_pc = "running"
    /\ fetch_log /= <<>>
    /\ Current.st = "sending"
    /\ Resolve("failed", CrawlResult_failure(Label(Current.source),
                                             SendErrorText))
    /\ UNCHANGED <<checkerVars, streamVars, parseVars, fileVars, textVars>>
    /\ UNCHANGED <<unitVars, separated, scanVars, dedupVars>>
    /\ UNCHANGED <<sources, by_name, crawl_pc>>

\* send() yields a response: crawl_url goes on to read its text
SendResponds ==
    /\ crawl_pc = "running"
    /\ fetch_log /= <<>>
    /\ Current.st = "sending"
    /\ fetch_log' = [fetch_log EXCEPT ![Len(fetch_log)].st = "reading"]
    /\ UNCHANGED <<checkerVars, streamVars, parseVars, fileVars, textVars>>
    /\ UNCHANGED <<unitVars, separated, scanVars, dedupVars>>
    /\ UNCHANGED <<sources, by_name, crawl_pc, crawl_results>>

\* text() fails
TextFails ==
    /\ crawl_pc = "running"
    /\ fetch_log /= <<>>
    /\ Current.st = "reading"
    /\ Resolve("failed", CrawlResult_failure(Label(Current.source),
                                             TextErrorText))
    /\ UNCHANGED <<checkerVars, streamVars, parseVars, fileVars, textVars>>
    /\ UNCHANGED <<unitVars, separated, scanVars, dedupVars>>
    /\ UNCHANGED <<sources, by_name, crawl_pc>>

\* text() yields the body: it is parsed and the loop records a success
TextRead(content) ==
    /\ crawl_pc = "running"
    /\ fetch_log /= <<>>
    /\ Current.st = "reading"
    /\ Resolve("ok",
               CrawlResult_success(
                   Label(Current.source),
                   parse_proxies_from_text(
                       content, sources[Current.source].proxy_type).proxies))
    /\ UNCHANGED <<checkerVars, streamVars, parseVars, fileVars, textVars>>
    /\ UNCHANGED <<unitVars, separated, scanVars, dedupVars>>
    /\ UNCHANGED <<sources, by_name, crawl_pc>>

\* the loop is over: results is returned
CrawlReturn ==
    /\ crawl_pc = "running"
    /\ Len(fetch_log) = Len(sources)
    /\ loop_may_advance(fetch_log)
    /\ crawl_pc' = "returned"
    /\ UNCHANGED <<checkerVars, streamVars, parseVars, fileVars, textVars>>
    /\ UNCHANGED <<unitVars, separated, scanVars, dedupVars>>
    /\ UNCHANGED <<sources, by_name, fetch_log, crawl_results>>

----------------------------------------------------------------------------
(* Specification of a multi-source crawl *)

InitCrawl ==
    /\ InitNoChecker
    /\ InitNoStream
    /\ InitNoParse
    /\ InitNoFile
    /\ InitNoText
    /\ InitNoUnit
    /\ InitNoScan
    /\ InitNoDedup
    /\ sources \in UNION {[1..k -> SourcePool] : k \in 0..MaxSources}
    /\ by_name \in BOOLEAN
    /\ crawl_pc = "idle"
    /\ fetch_log = <<>>
    /\ crawl_results = <<>>

NextCrawl ==
    \/ CrawlStart
    \/ BeginFetch
    \/ SendFails
    \/ SendResponds
    \/ TextFails
    \/ \E content \in CrawlBodies : TextRead(content)
    \/ CrawlReturn

SpecCrawl == InitCrawl /\ [][NextCrawl]_vars

----------------------------------------------------------------------------
(* src/proxy/crawler.rs: configuration; the setters of both configurations *)

Crawler_DEFAULT_TIMEOUT_SECS == 30
DEFAULT_USER_AGENT ==
    "Mozilla/5.0 (Windows NT 10.0; Win64; x64) AppleWebKit/537.36 (KHTML, like Gecko) Chrome/91.0.4472.124 Safari/537.36"

CrawlerConfig_default ==
    [timeout |-> Crawler_DEFAULT_TIMEOUT_SECS,
     user_agent |-> DEFAULT_USER_AGENT,
     default_proxy_type |-> "Http"]

CrawlerConfig_with_timeout(cfg, timeout) == [cfg EXCEPT !.timeout = timeout]
CrawlerConfig_with_user_agent(cfg, user_agent) ==
    [cfg EXCEPT !.user_agent = user_agent]
CrawlerConfig_with_proxy_type(cfg, proxy_type) ==
    [cfg EXCEPT !.default_proxy_type = proxy_type]

\* the arguments the setters are tried with; each set holds the default
TimeoutArgs == {5, DEFAULT_TIMEOUT_SECS, Crawler_DEFAULT_TIMEOUT_SECS}
ConcurrencyArgs == {1, DEFAULT_CONCURRENCY}
TestUrlArgs == {"https://example.com/", DEFAULT_TEST_URL}
UserAgentArgs == {"curl/8", DEFAULT_USER_AGENT}
ProxyTypeArgs == {"Http", "Socks5"}

\* a setter was applied: the log takes it, with both configurations as they
\* were
Logged(setter, arg) ==
    /\ Len(setter_log) < MaxSetterCalls
    /\ setter_log' = Append(setter_log, [setter |-> setter, arg |-> arg])
    /\ cfg_before' = [checker |-> checker_cfg, crawler |-> crawler_cfg]
    /\ UNCHANGED <<checkerVars, streamVars, parseVars, fileVars, textVars>>
    /\ UNCHANGED <<separated, crawlerVars, geoVars, probe>>

WithTimeout(timeout) ==
    /\ Logged("CheckerConfig::with_timeout", timeout)
    /\ checker_cfg' = with_timeout(checker_cfg, timeout)
    /\ UNCHANGED crawler_cfg

WithConcurrency(concurrency) ==
    /\ Logged("CheckerConfig::with_concurrency", concurrency)
    /\ checker_cfg' = with_concurrency(checker_cfg, concurrency)
    /\ UNCHANGED crawler_cfg

WithTestUrl(test_url) ==
    /\ Logged("CheckerConfig::with_test_url", test_url)
    /\ checker_cfg' = with_test_url(checker_cfg, test_url)
    /\ UNCHANGED crawler_cfg

WithMmdbPath(path) ==
    /\ Logged("CheckerConfig::with_mmdb_path", path)
    /\ checker_cfg' = with_mmdb_path(checker_cfg, path)
    /\ UNCHANGED crawler_cfg

CrawlerWithTimeout(timeout) ==
    /\ Logged("CrawlerConfig::with_timeout", timeout)
    /\ crawler_cfg' = CrawlerConfig_with_timeout(crawler_cfg, timeout)
    /\ UNCHANGED checker_cfg

CrawlerWithUserAgent(user_agent) ==
    /\ Logged("CrawlerConfig::with_user_agent", user_agent)
    /\ crawler_cfg' = CrawlerConfig_with_user_agent(crawler_cfg, user_agent)
    /\ UNCHANGED checker_cfg

CrawlerWithProxyType(proxy_type) ==
    /\ Logged("CrawlerConfig::with_proxy_type", proxy_type)
    /\ crawler_cfg' = CrawlerConfig_with_proxy_type(crawler_cfg, proxy_type)
    /\ UNCHANGED checker_cfg

\* CheckerConfig::new() and CrawlerConfig::new()
InitSetters ==
    /\ InitNoChecker
    /\ InitNoStream
    /\ InitNoParse
    /\ InitNoFile
    /\ InitNoText
    /\ InitNoCrawler
    /\ InitNoGeo
    /\ InitNoProbe
    /\ checker_cfg = CheckerConfig_default
    /\ crawler_cfg = CrawlerConfig_default
    /\ setter_log = <<>>
    /\ cfg_before = [checker |-> CheckerConfig_default,
                     crawler |-> CrawlerConfig_default]

NextSetters ==
    \/ \E timeout \in TimeoutArgs : WithTimeout(timeout)
    \/ \E concurrency \in ConcurrencyArgs : WithConcurrency(concurrency)
    \/ \E test_url \in TestUrlArgs : WithTestUrl(test_url)
    \/ \E path \in MmdbPaths : WithMmdbPath(path)
    \/ \E timeout \in TimeoutArgs : CrawlerWithTimeout(timeout)
    \/ \E user_agent \in UserAgentArgs : CrawlerWithUserAgent(user_agent)
    \/ \E proxy_type \in ProxyTypeArgs : CrawlerWithProxyType(proxy_type)

SpecSetters == InitSetters /\ [][NextSetters]_vars

----------------------------------------------------------------------------
(* Specification of one check_proxy call, with the route of its request *)

\* one candidate of each scheme, and one with credentials
ProbeProxies ==
    { Proxy_new(<<"1", ".", "1", ".", "1", ".", "1">>, 8080, t) :
        t \in ProxyType }
    \cup { Proxy_with_auth(<<"a", ".", "b">>, 1080, t, <<"u">>, <<"p">>) :
             t \in ProxyType }

\* probe targets of both schemes
ProbeUrls == { <<"h", "t", "t", "p", ":", "/", "/", "h", "t", "t", "p", "b", "i", "n", ".", "o", "r", "g", "/", "i", "p">>,
               <<"h", "t", "t", "p", "s", ":", "/", "/", "h", "t", "t", "p", "b", "i", "n", ".", "o", "r", "g", "/", "i", "p">>,
               <<"h", "t", "t", "p", "s", ":", "/", "/", "a", ".", "b", "/">> }

\* the scheme of a request URL: what stands before "://"
url_scheme(u) == SubSeq(u, 1, IndexOf(u, ":") - 1)

\* where the client sends a request: a rule made by Proxy::all takes a
\* request of any scheme, a rule made by Proxy::http takes the requests of
\* scheme http only; a request no rule takes is sent to the target itself
request_route(client, target) ==
    IF client.intercepts = "all" \/ url_scheme(target) = <<"h", "t", "t", "p">>
    THEN "proxy"
    ELSE "direct"

InitProbe ==
    /\ InitNoChecker
    /\ InitNoStream
    /\ InitNoParse
    /\ InitNoFile
    /\ InitNoText
    /\ InitNoCrawler
    /\ InitNoGeo
    /\ InitNoSetter
    /\ \E p \in ProbeProxies, u \in ProbeUrls :
          probe = [proxy |-> p, test_url |-> u, st |-> "start",
                   client |-> None, route |-> None, out |-> None]

ProbeFrame ==
    /\ UNCHANGED <<checkerVars, streamVars, parseVars, fileVars, textVars>>
    /\ UNCHANGED <<separated, crawlerVars, geoVars, setterVars>>

\* create_client; on Ok the request is sent
ProbeCreateClient(builds) ==
    /\ probe.st = "start"
    /\ LET client == create_client(CheckerConfig_default, probe.proxy, builds)
       IN  IF IsOk(client)
           THEN probe' = [probe EXCEPT
                             !.st = "pending",
                             !.client = Some(client[2]),
                             !.route = Some(request_route(client[2],
                                                          probe.test_url))]
           ELSE probe' = [probe EXCEPT
                             !.st = "done",
                             !.out = Some(ProxyCheckResult_failed(
                                              probe.proxy, client[2]))]
    /\ ProbeFrame

\* the request ends: a response, an error, or the timer
ProbeEnds(got) ==
    /\ probe.st = "pending"
    /\ probe' = [probe EXCEPT
                    !.st = "done",
                    !.out = Some(check_proxy_match(None, probe.proxy, got))]
    /\ ProbeFrame

ProbeOutcomes ==
    { <<"response", status, 35, "absent">> : status \in StatusCodes }
    \cup { <<"error", "connection refused">>, <<"elapsed">> }

NextProbe ==
    \/ \E builds \in BOOLEAN : ProbeCreateClient(builds)
    \/ \E got \in ProbeOutcomes : ProbeEnds(got)

SpecProbe == InitProbe /\ [][NextProbe]_vars

----------------------------------------------------------------------------
(* Specification of GeoLocator::lookup *)

HostLabels == { <<"1">>, <<"2", "5", "5">>, <<"2", "5", "6">>, <<"0", "1">>,
                <<"a">> }

GeoHosts ==
    { join(ls, <<".">>) :
        ls \in UNION {[1..k -> HostLabels] : k \in 1..MaxHostLabels} }

GeoAnswers == DbAnswers \cup FoundAnswers

InitGeo ==
    /\ InitNoChecker
    /\ InitNoStream
    /\ InitNoParse
    /\ InitNoFile
    /\ InitNoText
    /\ InitNoCrawler
    /\ InitNoSetter
    /\ InitNoProbe
    /\ lookup_host \in GeoHosts
    /\ db_answer \in GeoAnswers
    /\ located = None

Lookup ==
    /\ located = None
    /\ located' = Some(lookup(GeoLocator_from_path("GeoLite2-City.mmdb")[2],
                              lookup_host, db_answer))
    /\ UNCHANGED <<checkerVars, streamVars, parseVars, fileVars, textVars>>
    /\ UNCHANGED <<separated, crawlerVars, setterVars, probe>>
    /\ UNCHANGED <<lookup_host, db_answer>>

NextGeo == Lookup

SpecGeo == InitGeo /\ [][NextGeo]_vars

----------------------------------------------------------------------------
(* Properties of the batch checker (specification Spec) *)

DoneTasks(b) == {i \in Tasks(b) : task[b][i].st \in {"done", "sent"}}
Outcome(b, i) == Unwrap(task[b][i].out)
IsFailed(r) == r.status[1] = "Failed"
IsTimeout(r) == r.status[1] = "Timeout"
Count(seq, x) == Cardinality({k \in 1..Len(seq) : seq[k] = x})
ResultProxies(rs) == [k \in 1..Len(rs) |-> rs[k].proxy]

\* C1: during check_proxies with concurrency limit N, the number of probes
\* (check_proxy calls) executing at the same time never exceeds N, whatever
\* the size of the batch and the order in which probes start and finish.
C1_InFlightAtMostN ==
    \A b \in Calls : Cardinality(InFlight(b)) <= config.concurrency

\* a batch larger than the limit with the limit reached and units still
\* waiting in the stream
C1_Witness ==
    \E b \in Calls :
        /\ config.concurrency >= 2
        /\ Len(proxies[b]) > config.concurrency
        /\ Cardinality(InFlight(b)) = config.concurrency
        /\ Queued(b) /= {}

\* C2: check_proxies over M proxies returns exactly M results, one per
\* submitted proxy (equal as multisets), whatever the outcomes of the
\* probes, and check_proxy ran exactly once for each proxy.
C2_OneResultPerProxy ==
    \A b \in Calls :
        pc[b] = "returned" =>
            /\ Len(results[b]) = Len(proxies[b])
            /\ \A p \in Range(proxies[b]) :
                  Count(ResultProxies(results[b]), p) = Count(proxies[b], p)
            /\ \A i \in Tasks(b) : task[b][i].probes = 1

\* a returned batch of three holding a Working, a Failed and a Timeout result
C2_Witness ==
    \E b \in Calls :
        /\ pc[b] = "returned"
        /\ Len(proxies[b]) >= 3
        /\ \E k \in 1..Len(results[b]) : is_working(results[b][k])
        /\ \E k \in 1..Len(results[b]) : IsFailed(results[b][k])
        /\ \E k \in 1..Len(results[b]) : IsTimeout(results[b][k])

\* C4: whenever the per-probe timeout elapses before the request has
\* completed, check_proxy yields Timeout, never Failed, with no latency.
C4_ElapsedYieldsTimeout ==
    \A b \in Calls : \A i \in DoneTasks(b) :
        task[b][i].cause = "timeout_elapsed" =>
            /\ Outcome(b, i).status = Timeout
            /\ Outcome(b, i).response_time_ms = None

\* C5: the outcome of check_proxy is decided by what happened to the probe:
\* the client could not be built -> Failed and no request was sent; a 2xx
\* response -> Working; another status -> Failed("HTTP status: ..."); a
\* transport error -> Failed; the timeout first -> Timeout.  A latency is
\* present exactly for Working.
C5_OutcomeByCause ==
    \A b \in Calls : \A i \in DoneTasks(b) :
        LET t == task[b][i]
            r == Outcome(b, i)
        IN  /\ t.cause = "client_build_failed" => IsFailed(r) /\ IsNone(t.client)
            /\ t.cause = "status_2xx" => is_working(r)
            /\ t.cause = "status_other" =>
                  /\ IsFailed(r)
                  /\ r.status[2] \in {HttpStatusText(c) : c \in StatusCodes}
            /\ t.cause = "transport_failed" => IsFailed(r)
            /\ t.cause = "timeout_elapsed" => IsTimeout(r)
            /\ IsSome(r.response_time_ms) <=> is_working(r)

\* C6: a geo lookup never changes the outcome: a 2xx response gives Working
\* whether or not a locator is configured and whatever the lookup returns;
\* the result carries a location exactly when a lookup was made (a locator
\* is configured, the result is Working) and succeeded, and then it is the
\* location the lookup returned.
C6_GeoNeverChangesOutcome ==
    \A b \in Calls : \A i \in DoneTasks(b) :
        LET t == task[b][i]
            r == Outcome(b, i)
        IN  /\ t.cause = "status_2xx" => is_working(r)
            /\ IsSome(t.lookup) => IsSome(geo_locator) /\ is_working(r)
            /\ r.geo_location =
                  IF IsSome(t.lookup) /\ IsOk(Unwrap(t.lookup))
                  THEN Some(Unwrap(t.lookup)[2])
                  ELSE None

\* with a locator configured: one Working result whose lookup failed and
\* which carries no location, and one whose lookup succeeded and which does
C6_Witness ==
    \E b \in Calls : \E i, j \in DoneTasks(b) :
        /\ IsSome(geo_locator)
        /\ IsSome(task[b][i].lookup) /\ ~IsOk(Unwrap(task[b][i].lookup))
        /\ is_working(Outcome(b, i)) /\ IsNone(Outcome(b, i).geo_location)
        /\ IsSome(task[b][j].lookup) /\ IsOk(Unwrap(task[b][j].lookup))
        /\ is_working(Outcome(b, j)) /\ IsSome(Outcome(b, j).geo_location)

----------------------------------------------------------------------------
(* Properties of the streaming check (specification SpecStream) *)

Sent(b) == {i \in Tasks(b) : task[b][i].st = "sent"}
Received == app.recent_good \o app.recent_bad

\* C3: in streaming mode a result is on the channel only after its probe has
\* completed, the channel is closed only after every probe of the batch has
\* sent its result, and a consumer that sees the channel closed has received
\* exactly one result for each submitted proxy.
C3_StreamDelivery ==
    streaming =>
      /\ \A k \in 1..Len(channel) :
            \E i \in Sent(1) : /\ task[1][i].cause /= "none"
                               /\ task[1][i].out = Some(channel[k])
      /\ app.pc /= "exited" =>
            Len(channel) + app.checked = Cardinality(Sent(1))
      /\ (~tx_open /\ pc[1] /= "idle") => Sent(1) = Tasks(1)
      /\ app.is_complete =>
            /\ app.checked = Len(proxies[1])
            /\ app.good_count + app.bad_count = app.checked
            /\ \A p \in Range(proxies[1]) :
                  Count(ResultProxies(Received), p) = Count(proxies[1], p)

C3_Witness ==
    /\ streaming
    /\ app.is_complete
    /\ app.good_count = 1
    /\ app.bad_count = 1
    /\ ~tx_open

----------------------------------------------------------------------------
(* Properties of parse_line (specification SpecParse) *)

\* a field as the five shapes write it: non-empty, free of delimiters
Plain(s) ==
    /\ s /= <<>>
    /\ \A i \in 1..Len(s) : s[i] \notin ({":", "@", "/", "#"} \cup Whitespace)

PortValue(s) == Unwrap(checked_digits(s, 0))

\* a port as the record holds it: digits, value 1..65535
ValidPort(s) ==
    /\ IsDigits(s)
    /\ IsSome(checked_digits(s, 0))
    /\ PortValue(s) >= 1

\* the record a line of one of the five shapes writes down, None for any
\* other line
ShapeRecord(s, dt) ==
    LET scheme == MatchScheme(s)
        body == IF IsSome(scheme)
                THEN Tail2(s, Len(ProxyTypeName(Unwrap(scheme))) + 4)
                ELSE s
        type == IF IsSome(scheme) THEN Unwrap(scheme) ELSE dt
        ats == split(body, "@")
        f == split(body, ":")
        cred == split(ats[1], ":")
        hp == split(ats[2], ":")
    IN  IF Len(ats) = 1 /\ Len(f) = 2 /\ Plain(f[1]) /\ ValidPort(f[2])
        THEN Some(Proxy_new(f[1], PortValue(f[2]), type))
        ELSE IF /\ Len(ats) = 1 /\ IsNone(scheme) /\ Len(f) = 4
                /\ Plain(f[1]) /\ ValidPort(f[2]) /\ Plain(f[3]) /\ Plain(f[4])
        THEN Some(Proxy_with_auth(f[1], PortValue(f[2]), type, f[3], f[4]))
        ELSE IF /\ Len(ats) = 2 /\ Len(cred) = 2 /\ Len(hp) = 2
                /\ Plain(cred[1]) /\ Plain(cred[2])
                /\ Plain(hp[1]) /\ ValidPort(hp[2])
        THEN Some(Proxy_with_auth(hp[1], PortValue(hp[2]), type,
                                  cred[1], cred[2]))
        ELSE None

StripSlash(s) ==
    IF s /= <<>> /\ s[Len(s)] = "/" THEN SubSeq(s, 1, Len(s) - 1) ELSE s

\* a line with a missing port, a non-numeric port, or a colon-field count
\* other than 2 or 4
Unsupported(s) ==
    LET f == split(s, ":")
    IN  IF IsSome(MatchScheme(s)) THEN ~IsDigits(StripSlash(f[Len(f)]))
        ELSE IF "@" \in Range(s) THEN Len(f) = 3 /\ ~IsDigits(f[3])
        ELSE Len(f) \notin {2, 4} \/ ~IsDigits(f[2])

\* C7: for a line of one of the five supported shapes parse_line returns the
\* record with exactly the host, port, scheme and credentials written in the
\* line (the URL's scheme for the URL forms, the default type otherwise); for
\* a line with a missing port, a non-numeric port or a colon-field count
\* other than 2 or 4 it returns no record.
C7_ShapesExactElseNone ==
    parsed /= None =>
        LET s == trim(line)
            got == Unwrap(parsed)
        IN  /\ IsSome(ShapeRecord(s, default_type)) =>
                  got = ShapeRecord(s, default_type)
            /\ Unsupported(s) => got = None

\* C10: every record parse_line returns has a non-empty host and a port in
\* 1..65535; a line whose host field is empty or whose port is 0 or above
\* 65535 yields no record.
C10_HostAndPortValid ==
    (parsed /= None /\ IsSome(Unwrap(parsed))) =>
        LET r == Unwrap(Unwrap(parsed))
        IN  /\ r.host /= <<>>
            /\ 1 <= r.port
            /\ r.port <= U16_MAX

----------------------------------------------------------------------------
(* Properties of save_to_file and parse_file (specification SpecFile) *)

\* C8: save_to_file(records, path, full) followed by parse_file(path) returns
\* a sequence equal to the original in host, port and scheme, and in
\* credentials too when full is true; with full false the credentials are
\* absent.
C8_RoundTrip ==
    (loaded /= None /\ IsOk(Unwrap(loaded))) =>
        LET got == Unwrap(loaded)[2]
        IN  /\ Len(got) = Len(records)
            /\ \A k \in 1..Len(records) :
                  /\ got[k].host = records[k].host
                  /\ got[k].port = records[k].port
                  /\ got[k].proxy_type = records[k].proxy_type
                  /\ got[k].auth = IF full_format THEN records[k].auth ELSE None

----------------------------------------------------------------------------
(* Properties of parse_string (specification SpecText) *)

IsRecordLine(l) == IsSome(parse_line(l, default_type))

\* C9: parse_string returns exactly the records parse_line yields for the
\* lines of the text, in line order; blank lines, comment lines and malformed
\* lines contribute nothing and leave the records of the other lines alone.
C9_ImageOfParseableLines ==
    collected /= None =>
        LET good == SelectSeq(src_lines, IsRecordLine)
        IN  Unwrap(collected) =
                [k \in 1..Len(good) |-> Unwrap(parse_line(good[k], default_type))]

\* a comment, a blank line, a malformed line and a record line: one record
C9_Witness ==
    /\ collected /= None
    /\ src_lines = << <<" ", "#", "a", ":", "8">>, <<>>, <<"x">>,
                      <<"a", ":", "8">> >>
    /\ Len(Unwrap(collected)) = 1
    /\ Unwrap(collected)[1].host = <<"a">>

----------------------------------------------------------------------------
(* Properties of parse_proxies_from_text (specification SpecExtract) *)

Extraction == Unwrap(extraction)

\* the records parse_line yields for the lines of the body
LineRecords ==
    { Unwrap(parse_line(l, Extraction.proxy_type)) :
        l \in { m \in Range(split(page, "\n")) :
                  IsSome(parse_line(m, Extraction.proxy_type)) } }

IsOctetText(s) == IsDigits(s) /\ Len(s) <= 3

\* a.b.c.d:port standing in the body between non-word characters, with
\* octets up to 255 and a port in 1..65535
IsEmbedded(i, j) ==
    LET t == SubSeq(page, i, j)
        hp == split(t, ":")
        os == split(hp[1], ".")
    IN  /\ (i = 1 \/ ~WordChar(page[i - 1]))
        /\ (j = Len(page) \/ ~WordChar(page[j + 1]))
        /\ Len(hp) = 2
        /\ Len(os) = 4
        /\ \A k \in 1..4 : IsOctetText(os[k]) /\ octet_value(os[k]) <= 255
        /\ IsDigits(hp[2]) /\ Len(hp[2]) <= 5
        /\ IsSome(checked_digits(hp[2], 0))
        /\ Unwrap(checked_digits(hp[2], 0)) >= 1

\* the longest text the pattern can match: four octets, a port, four
\* delimiters
LongestMatch == 4 * 3 + 5 + 4

EmbeddedRecords ==
    { Proxy_new(SubSeq(page, i, i + IndexOf(SubSeq(page, i, j), ":") - 2),
                Unwrap(checked_digits(
                    Tail2(SubSeq(page, i, j),
                          IndexOf(SubSeq(page, i, j), ":") + 1), 0)),
                Extraction.proxy_type) :
        <<i, j>> \in { ij \in (1..Len(page)) \X (1..Len(page)) :
                         /\ ij[1] <= ij[2]
                         /\ ij[2] - ij[1] < LongestMatch
                         /\ IsEmbedded(ij[1], ij[2]) } }

HostPorts(rs) == { <<r.host, r.port>> : r \in rs }

\* C11: the whole-body scan runs if and only if no line of the body parses;
\* a body with no parseable line and one embedded a.b.c.d:port yields
\* exactly that record; when a line parses, the output holds line-parsed
\* records only.
C11_ScanOnlyWhenNoLineParses ==
    extraction /= None =>
        /\ Extraction.regex_ran <=> LineRecords = {}
        /\ LineRecords /= {} => Range(Extraction.proxies) \subseteq LineRecords
        /\ LineRecords = {} => Range(Extraction.proxies) = EmbeddedRecords
        /\ (LineRecords = {} /\ Cardinality(EmbeddedRecords) = 1) =>
              Len(Extraction.proxies) = 1

C11_Witness ==
    /\ extraction /= None
    /\ page = <<"<", "t", "d", ">", "1", ".", "1", ".", "1", ".", "1", ":", "8", "0", "<", "/", "t", "d", ">">>
    /\ Extraction.regex_ran
    /\ Extraction.proxies =
          <<Proxy_new(<<"1", ".", "1", ".", "1", ".", "1">>, 80,
                      Extraction.proxy_type)>>

IsDottedQuad(h) ==
    LET os == split(h, ".")
    IN  Len(os) = 4 /\ \A k \in 1..4 : IsDigits(os[k])

\* C12: no record parse_proxies_from_text returns, whichever tier produced
\* it, has a dotted-quad host with an octet above 255 or has port 0.
C12_NoBadOctetNoPortZero ==
    extraction /= None =>
        \A k \in 1..Len(Extraction.proxies) :
            LET r == Extraction.proxies[k]
            IN  /\ r.port /= 0
                /\ IsDottedQuad(r.host) =>
                      \A o \in Range(split(r.host, ".")) : octet_value(o) <= 255

\* C13: the output never holds two records with the same (host, port), and
\* every (host, port) pair that was extracted is in the output.
C13_OnePerHostPort ==
    extraction /= None =>
        /\ \A i, j \in 1..Len(Extraction.proxies) :
              (/\ Extraction.proxies[i].host = Extraction.proxies[j].host
               /\ Extraction.proxies[i].port = Extraction.proxies[j].port)
              => i = j
        /\ HostPorts(Range(Extraction.proxies)) =
              HostPorts(IF LineRecords /= {} THEN LineRecords
                        ELSE EmbeddedRecords)

\* three lines that differ in scheme and credentials only: one record
C13_Witness ==
    /\ extraction /= None
    /\ Cardinality(LineRecords) = 3
    /\ Cardinality(HostPorts(LineRecords)) = 1
    /\ Len(Extraction.proxies) = 1

\* <str as Ord>::cmp(a, b) /= Greater on the host alone
HostLe(a, b) == a.host = b.host \/ str_lt(a.host, b.host)

\* C14 as the spec states it: the output is ordered lexicographically by
\* host and, among equal hosts, by port ('1.1.1.1' before '1.1.1.10').
C14_OrderedByHostThenPort ==
    extraction /= None =>
        \A i, j \in 1..Len(Extraction.proxies) :
            i < j =>
                LET a == Extraction.proxies[i]
                    b == Extraction.proxies[j]
                IN  /\ HostLe(a, b)
                    /\ a.host = b.host =>
                          str_lt(to_string(a.port), to_string(b.port))

\* C14, amended: the output is strictly increasing in the composite text
\* "host:port" compared byte by byte, whatever the order of discovery; a
\* host that continues another one with a byte below ':' comes first
\* ('1.1.1.10:80' before '1.1.1.1:80').
C14_OrderedByCompositeKey ==
    extraction /= None =>
        \A i, j \in 1..Len(Extraction.proxies) :
            i < j => str_lt(sort_key(Extraction.proxies[i]),
                            sort_key(Extraction.proxies[j]))

C14_Witness ==
    /\ extraction /= None
    /\ Len(Extraction.proxies) = 2
    /\ Extraction.proxies[1].host = <<"1", ".", "1", ".", "1", ".", "1", "0">>
    /\ Extraction.proxies[2].host = <<"1", ".", "1", ".", "1", ".", "1">>
    /\ Extraction.proxies[1].port = Extraction.proxies[2].port

----------------------------------------------------------------------------
(* Properties of the sort-and-dedup step (specification SpecDedup) *)

\* C15: the dedup step (stable sort by the key host:port, then collapse of
\* adjacent records with equal host and port) is idempotent: applied to its
\* own output it returns that output unchanged, for every input sequence.
C15_DedupIdempotent ==
    dedup_twice /= None => Unwrap(dedup_twice) = Unwrap(dedup_once)

\* three repeats of one record and one other record: two records, twice
C15_Witness ==
    /\ dedup_twice /= None
    /\ Len(dedup_input) = 4
    /\ Cardinality({k \in 1..4 : dedup_input[k] = Proxy_new(<<"a">>, 8, "Http")})
          = 3
    /\ Len(Unwrap(dedup_once)) = 2
    /\ Len(Unwrap(dedup_twice)) = 2

----------------------------------------------------------------------------
(* Properties of the multi-source crawl (specification SpecCrawl) *)

\* C16: the multi-source crawls return exactly one CrawlResult per source, in
\* input order; a source whose fetch fails yields a result with a non-empty
\* error and keeps no later source from being crawled.
C16_OneResultPerSourceInOrder ==
    /\ Len(crawl_results) <= Len(fetch_log)
    /\ \A k \in 1..Len(crawl_results) :
          /\ crawl_results[k].source = Label(k)
          /\ fetch_log[k].st = "failed" =>
                /\ IsSome(crawl_results[k].error)
                /\ Unwrap(crawl_results[k].error) /= ""
          /\ fetch_log[k].st = "ok" => IsNone(crawl_results[k].error)
    /\ crawl_pc = "returned" =>
          /\ Len(crawl_results) = Len(sources)
          /\ \A k \in 1..Len(sources) : fetch_log[k].st \in {"failed", "ok"}

\* source 2 of 3 fails, sources 1 and 3 return their proxies
C16_Witness ==
    /\ crawl_pc = "returned"
    /\ Len(sources) = 3
    /\ IsSome(crawl_results[2].error)
    /\ crawl_results[1].proxies /= <<>>
    /\ crawl_results[3].proxies /= <<>>

\* C17: sources are processed one at a time: at most one fetch is in
\* progress at any moment, and the fetch of source i+1 starts only after the
\* result of source i has been recorded.
C17_OneFetchAtATime ==
    /\ Cardinality({k \in 1..Len(fetch_log) :
                       fetch_log[k].st \in {"sending", "reading"}}) <= 1
    /\ \A k \in 1..Len(fetch_log) :
          /\ fetch_log[k].source = k
          /\ Len(crawl_results) >= k - 1

C17_Witness ==
    /\ Len(fetch_log) = 2
    /\ fetch_log[2].st = "reading"
    /\ Len(crawl_results) = 1

\* C18: in every CrawlResult the crawler produces, error set implies no
\* proxies, is_success holds exactly when error is unset, and a result of a
\* fetch that succeeded carries no error.
C18_ErrorMeansNoProxies ==
    \A k \in 1..Len(crawl_results) :
        /\ IsSome(crawl_results[k].error) => crawl_results[k].proxies = <<>>
        /\ CrawlResult_is_success(crawl_results[k])
              <=> IsNone(crawl_results[k].error)
        /\ fetch_log[k].st = "ok" => CrawlResult_is_success(crawl_results[k])
        /\ fetch_log[k].st = "failed" =>
              ~CrawlResult_is_success(crawl_results[k])

C18_Witness ==
    /\ Len(crawl_results) = 2
    /\ ~CrawlResult_is_success(crawl_results[1])
    /\ crawl_results[1].proxies = <<>>
    /\ CrawlResult_is_success(crawl_results[2])
    /\ crawl_results[2].proxies = <<>>

----------------------------------------------------------------------------
(* Properties of check_and_separate (specification Spec) *)

Good(b) == Unwrap(separated[b]).good
Bad(b) == Unwrap(separated[b]).bad
NotWorking(r) == r.status = Timeout \/ r.status[1] = "Failed"

\* C19: check_and_separate returns two sequences that together hold every
\* check result exactly once: the first exactly the Working results, the
\* second all Failed and Timeout results, each in completion order.
C19_SeparatedExactlyOnce ==
    \A b \in Calls :
        IsSome(separated[b]) =>
            /\ \A k \in 1..Len(Good(b)) : Good(b)[k].status = Working
            /\ \A k \in 1..Len(Bad(b)) : NotWorking(Bad(b)[k])
            /\ \A k \in 1..Len(results[b]) :
                  Count(Good(b), results[b][k]) + Count(Bad(b), results[b][k])
                      = Count(results[b], results[b][k])
            /\ Len(Good(b)) + Len(Bad(b)) = Len(results[b])
            /\ Good(b) = SelectSeq(results[b], LAMBDA r : r.status = Working)
            /\ Bad(b) = SelectSeq(results[b], NotWorking)

\* a batch with a Working, a Failed and a Timeout result has been separated
C19_Witness ==
    \E b \in Calls :
        /\ IsSome(separated[b])
        /\ Len(Good(b)) >= 1
        /\ \E j, k \in 1..Len(Bad(b)) :
              /\ Bad(b)[j].status = Timeout
              /\ Bad(b)[k].status /= Timeout

----------------------------------------------------------------------------
(* Properties of the checker's construction (specification Spec) *)

UnopenableDatabase ==
    /\ IsSome(config.mmdb_path)
    /\ ~IsOk(GeoLocator_from_path(Unwrap(config.mmdb_path)))

\* C20: a geo-database path whose file cannot be opened is a hard error of
\* the checker's construction: no checker built from such a path goes on to
\* check proxies and report one Working without geo enrichment.
C20_UnopenableDatabaseIsFatal ==
    UnopenableDatabase =>
        \A b \in Calls : \A k \in 1..Len(results[b]) :
            ~is_working(results[b][k])

----------------------------------------------------------------------------
(* Properties of GeoLocator::lookup (specification SpecGeo) *)

\* the hosts of the model that are literal addresses
LiteralHosts ==
    { join(<<a, b, c, d>>, <<".">>) :
        a \in {<<"1">>, <<"2", "5", "5">>}, b \in {<<"1">>, <<"2", "5", "5">>},
        c \in {<<"1">>, <<"2", "5", "5">>}, d \in {<<"1">>, <<"2", "5", "5">>} }

GeoFields == DOMAIN GeoLocation_default

\* the field of the database record that feeds a field of the location
CityField(f) ==
    CASE f = "country_code" -> "iso_code"
      [] f = "country_name" -> "country_english"
      [] f = "city_name" -> "city_english"
      [] f = "continent_code" -> "code"
      [] f = "latitude" -> "latitude"
      [] f = "longitude" -> "longitude"
      [] f = "timezone" -> "time_zone"

\* C21: lookup returns an error for every host that is not a literal IP
\* address; for a literal address with no database entry it returns success
\* with every field of the location unset; a field missing from a found
\* record is unset in the location, a field present is copied.
C21_LookupLiteralOnly ==
    IsSome(located) =>
        LET r == Unwrap(located)
        IN  /\ lookup_host \notin LiteralHosts => ~IsOk(r)
            /\ (lookup_host \in LiteralHosts /\ db_answer = "absent") =>
                  /\ IsOk(r)
                  /\ \A f \in GeoFields : r[2][f] = None
            /\ (lookup_host \in LiteralHosts /\ db_answer \in FoundAnswers) =>
                  /\ IsOk(r)
                  /\ \A f \in GeoFields :
                        r[2][f] = CityOf(db_answer)[CityField(f)]

\* a literal address without an entry gave the empty location
C21_Witness ==
    /\ IsSome(located)
    /\ lookup_host \in LiteralHosts
    /\ db_answer = "absent"
    /\ Unwrap(located) = Ok(GeoLocation_default)

----------------------------------------------------------------------------
(* Properties of the configuration setters (specification SpecSetters) *)

\* the calls of a setter in the log, and the argument of the last of them
CallsOf(setter) ==
    {k \in 1..Len(setter_log) : setter_log[k].setter = setter}
LastArg(setter) ==
    setter_log[CHOOSE k \in CallsOf(setter) :
                   \A j \in CallsOf(setter) : j <= k].arg

\* a field holds the documented default until its setter is called, and
\* from then on the argument of the last call
FieldIs(value, setter, documented) ==
    IF CallsOf(setter) = {} THEN value = documented
    ELSE value = LastArg(setter)

\* the configuration and the field the last setter of the log is about
LastSetter == setter_log[Len(setter_log)].setter
OwnField ==
    CASE LastSetter = "CheckerConfig::with_timeout" -> <<"checker", "timeout">>
      [] LastSetter = "CheckerConfig::with_concurrency" ->
           <<"checker", "concurrency">>
      [] LastSetter = "CheckerConfig::with_test_url" ->
           <<"checker", "test_url">>
      [] LastSetter = "CheckerConfig::with_mmdb_path" ->
           <<"checker", "mmdb_path">>
      [] LastSetter = "CrawlerConfig::with_timeout" -> <<"crawler", "timeout">>
      [] LastSetter = "CrawlerConfig::with_user_agent" ->
           <<"crawler", "user_agent">>
      [] LastSetter = "CrawlerConfig::with_proxy_type" ->
           <<"crawler", "default_proxy_type">>

\* C22: each setter changes only its own field and leaves every other field
\* of both configurations as it was, in any order of application; a field
\* never set holds the documented default (10 s, 10, http://httpbin.org/ip,
\* no geo path; 30 s, the browser user agent, HTTP).
C22_SettersChangeOwnFieldOnly ==
    /\ FieldIs(checker_cfg.timeout, "CheckerConfig::with_timeout", 10)
    /\ FieldIs(checker_cfg.concurrency, "CheckerConfig::with_concurrency", 10)
    /\ FieldIs(checker_cfg.test_url, "CheckerConfig::with_test_url",
               "http://httpbin.org/ip")
    /\ IF CallsOf("CheckerConfig::with_mmdb_path") = {}
       THEN checker_cfg.mmdb_path = None
       ELSE checker_cfg.mmdb_path
                = Some(LastArg("CheckerConfig::with_mmdb_path"))
    /\ FieldIs(crawler_cfg.timeout, "CrawlerConfig::with_timeout", 30)
    /\ FieldIs(crawler_cfg.user_agent, "CrawlerConfig::with_user_agent",
               "Mozilla/5.0 (Windows NT 10.0; Win64; x64) AppleWebKit/537.36 (KHTML, like Gecko) Chrome/91.0.4472.124 Safari/537.36")
    /\ FieldIs(crawler_cfg.default_proxy_type,
               "CrawlerConfig::with_proxy_type", "Http")
    /\ setter_log /= <<>> =>
          /\ \A f \in DOMAIN checker_cfg :
                <<"checker", f>> /= OwnField =>
                    checker_cfg[f] = cfg_before.checker[f]
          /\ \A f \in DOMAIN crawler_cfg :
                <<"crawler", f>> /= OwnField =>
                    crawler_cfg[f] = cfg_before.crawler[f]

\* the timeout set after the concurrency and the geo path: all three hold
\* their arguments, the probe URL and the crawler hold their defaults
C22_Witness ==
    /\ Len(setter_log) = 3
    /\ setter_log[1].setter = "CheckerConfig::with_concurrency"
    /\ setter_log[2].setter = "CheckerConfig::with_mmdb_path"
    /\ setter_log[3].setter = "CheckerConfig::with_timeout"
    /\ checker_cfg = [timeout |-> 5, concurrency |-> 1,
                      test_url |-> "http://httpbin.org/ip",
                      mmdb_path |-> Some("missing.mmdb")]
    /\ crawler_cfg = CrawlerConfig_default

----------------------------------------------------------------------------
(* Termination of check_proxies (specification SpecFair) *)

\* C23: check_proxies eventually returns, for every finite batch (the empty
\* one included) and every concurrency limit the configuration accepts (0
\* included), when every probe finishes by response, error or timeout.
C23_EventuallyReturns == <>(\A b \in Calls : pc[b] = "returned")

----------------------------------------------------------------------------
(* The permits of check_proxies (specification Spec) *)

\* C24: at every point of check_proxies, the permits available and the
\* probes holding one add up to N; a probe runs only while it holds a
\* permit, and the permit is back when the probe has finished, whatever its
\* outcome.
C24_PermitsConserved ==
    \A b \in Calls :
        pc[b] /= "idle" =>
            /\ semaphore[b] >= 0
            /\ semaphore[b] + Cardinality(InFlight(b)) = config.concurrency
            /\ (\A i \in Tasks(b) : task[b][i].st = "done") =>
                  semaphore[b] = config.concurrency

\* every permit is back after a batch with a Working, a Failed and a Timeout
\* result, which at one point held both permits
C24_Witness ==
    \E b \in Calls :
        /\ pc[b] = "returned"
        /\ config.concurrency = 2
        /\ semaphore[b] = 2
        /\ \E i, j, k \in Tasks(b) :
              /\ is_working(Unwrap(task[b][i].out))
              /\ Unwrap(task[b][j].out).status = Timeout
              /\ Unwrap(task[b][k].out).status[1] = "Failed"

----------------------------------------------------------------------------
(* Two batches at once (specification SpecPair) *)

\* C25: the cap of N probes in flight is global to the checker: with two
\* check_proxies batches running at once on it, the probes in flight across
\* both never exceed N.
C25_CapAcrossBatches ==
    Cardinality({bi \in CallIds \X TaskIds :
                    /\ bi[1] \in Calls
                    /\ bi[2] \in Tasks(bi[1])
                    /\ task[bi[1]][bi[2]].st = "request"})
        <= config.concurrency

----------------------------------------------------------------------------
(* The route of the probe's request (specification SpecProbe) *)

\* C26: every request check_proxy issues goes through the candidate proxy,
\* for the four proxy schemes and for probe URLs of scheme http and https:
\* no result is Working by a direct connection to the probe target.
C26_AlwaysThroughProxy ==
    /\ IsSome(probe.route) => Unwrap(probe.route) = "proxy"
    /\ (IsSome(probe.out) /\ is_working(Unwrap(probe.out))) =>
          probe.route = Some("proxy")

----------------------------------------------------------------------------
(* The order of the strategies of parse_line (specification SpecParse) *)

\* a line of URL shape: a scheme name, then "://"
UrlShaped(s) ==
    \E k \in 2..(Len(s) - 2) :
        /\ SubSeq(s, k, k + 2) = <<":", "/", "/">>
        /\ \A j \in 1..(k - 1) : s[j] \in Letter \cup Digit

\* C27: parse_line returns the record of the first strategy that produces
\* one, in the order URL form, auth-at form, colon form; a line of URL shape
\* that the URL form rejects yields no record: the later strategies do not
\* read it as a record with another host or other credentials.
C27_RejectedUrlYieldsNothing ==
    parsed /= None =>
        LET s == trim(line)
            got == Unwrap(parsed)
        IN  /\ IsSome(parse_url_format(s)) => got = parse_url_format(s)
            /\ (UrlShaped(s) /\ IsNone(parse_url_format(s))) => got = None

----------------------------------------------------------------------------
(* Which duplicate is kept (specification SpecExtract) *)

BodyLines == split(page, "\n")

\* the lines of the body that parse to a record of the host and port of r
LinesOf(r) ==
    { k \in 1..Len(BodyLines) :
        LET got == parse_line(BodyLines[k], Extraction.proxy_type)
        IN  /\ IsSome(got)
            /\ Unwrap(got).host = r.host
            /\ Unwrap(got).port = r.port }

FirstLineOf(r) == CHOOSE k \in LinesOf(r) : \A j \in LinesOf(r) : k <= j

\* C28: of several extracted records with one (host, port) and different
\* schemes or credentials, parse_proxies_from_text keeps the one that stood
\* first in the body.
C28_FirstOfDuplicatesKept ==
    extraction /= None =>
        \A k \in 1..Len(Extraction.proxies) :
            LET r == Extraction.proxies[k]
            IN  IF LineRecords /= {}
                THEN r = Unwrap(parse_line(BodyLines[FirstLineOf(r)],
                                           Extraction.proxy_type))
                ELSE r \in EmbeddedRecords

\* three lines name 1.1.1.1:80: with credentials, as a socks5 URL, plainly;
\* the record with the credentials, which stood first, is the one kept
C28_Witness ==
    /\ extraction /= None
    /\ Len(BodyLines) = 3
    /\ Len(Extraction.proxies) = 1
    /\ Cardinality(LineRecords) = 3
    /\ IsSome(parse_line(BodyLines[1], Extraction.proxy_type))
    /\ IsSome(Unwrap(parse_line(BodyLines[1], Extraction.proxy_type)).auth)
    /\ IsSome(Extraction.proxies[1].auth)

----------------------------------------------------------------------------
(* Properties of the progress dashboard (specification SpecStream) *)

Counters(a) == <<a.checked, a.good_count, a.bad_count>>

\* what a poll of the channel would give now
PollNow == try_recv(channel, tx_open)

\* when the dashboard is complete, nothing is left on the channel and it has
\* counted every result the checker sent
CompleteMeansAllCounted ==
    (streaming /\ app.is_complete) =>
        /\ channel = <<>>
        /\ app.checked = Cardinality(Sent(1))

\* is_complete is set only by a poll that finds the channel disconnected,
\* which it does only with nothing buffered; while a poll would be empty no
\* step changes a counter or sets is_complete
CompletesOnDisconnectOnly ==
    /\ (app'.is_complete /\ ~app.is_complete) =>
          /\ PollNow = <<"Disconnected">>
          /\ channel = <<>>
          /\ ~tx_open
    /\ (app.pc = "looping" /\ PollNow = <<"Empty">>) =>
          /\ Counters(app') = Counters(app)
          /\ app'.is_complete = app.is_complete

\* C29: the dashboard tells an empty poll from a closed channel: is_complete
\* becomes true only on seeing the channel disconnected, which is seen only
\* after every buffered result was consumed, so that at completion checked
\* is the number of results the checker sent; an empty poll changes no
\* counter and never completes the run.
C29_EmptyPollIsNotCompletion ==
    []CompleteMeansAllCounted /\ [][CompletesOnDisconnectOnly]_vars

\* the dashboard has seen an empty poll while results were outstanding and
\* went on to count both results and complete
C29_Witness ==
    /\ streaming
    /\ app.is_complete
    /\ app.checked = 2
    /\ Cardinality(Sent(1)) = 2
    /\ channel = <<>>

\* a step of the dashboard that changes a counter is the receipt of the
\* result at the head of the channel: checked and one of good_count (a
\* Working result) and bad_count (any other) go up by one
CountersStep ==
    Counters(app') /= Counters(app) =>
        /\ app.pc = "looping"
        /\ channel /= <<>>
        /\ channel' = Tail(channel)
        /\ Counters(app') =
              IF Head(channel).status = Working
              THEN <<app.checked + 1, app.good_count + 1, app.bad_count>>
              ELSE <<app.checked + 1, app.good_count, app.bad_count + 1>>

CountersAddUp ==
    streaming =>
        /\ app.checked = app.good_count + app.bad_count
        /\ app.checked <= app.total
        /\ \A key \in Keys :
              Counters(handle_input(app, key)) = Counters(app)

\* C30: in the dashboard, after any sequence of received results, empty polls
\* and key presses, checked = good_count + bad_count and checked <= total;
\* each received result increments checked and exactly one of good_count
\* (Working) and bad_count (Failed or Timeout); key presses change none of
\* the three.
C30_CountersConsistent == []CountersAddUp /\ [][CountersStep]_vars

\* a Working and a Timeout result have been counted, and keys were pressed
C30_Witness ==
    /\ streaming
    /\ app.checked = 2
    /\ app.good_count = 1
    /\ app.bad_count = 1
    /\ \E k \in 1..Len(app.recent_bad) : app.recent_bad[k].status = Timeout
    /\ app.should_quit

====
